---------------------------- MODULE Spec2Model ----------------------------
(***************************************************************************)
(* A model of the Bw-Tree index of peloton (src/backend/index/bwtree.h and *)
(* bwtree.cpp): the mapping table, the delta chains, the fold of a chain   *)
(* (GetAllData), the mutators InsertData / UpdateData / DeleteKey /        *)
(* DeleteData with SplitLeaf and SplitInner, and the readers Exists /      *)
(* Search / SearchAll.                                                     *)
(*                                                                         *)
(* Every operation is translated as the sequence of its accesses to shared *)
(* memory (one step per access, local computation merged into the step     *)
(* that follows it).  The sequential specification Spec runs one operation *)
(* to completion per transition; the concurrent specifications interleave  *)
(* the steps of several threads.                                           *)
(*                                                                         *)
(* Keys are naturals ordered by <, values are naturals compared by =.      *)
(* Node pointers are indices into the sequence heap; 0 is the null pointer.*)
(***************************************************************************)
EXTENDS Integers, Sequences, FiniteSets, TLC

\* ---------------------------------------------------------------- constants

\* bwtree.h:58
NULL_PID == 0
\* the null node pointer
NULL == 0
\* bwtree.h:60, BWTREE_MAX(8, ...) for keys of 24 bytes and more
leaf_slot_max == 8
\* bwtree.h:62
inner_slot_max == 8
\* bwtree.h:28
MAPPING_TABLE_SIZE == 4096
\* (size_t)-1, which GetLeafNodePID returns for "no leaf" (bwtree.h:1034); it
\* stands here as the largest integer of the model checker
SIZE_MAX == 2147483647
\* the result of an access whose behaviour is undefined
UB == 0 - 1

\* ------------------------------------------------------------------- nodes

\* struct Node and its extensions, as one record; Node::Initialize
NewNode(type, l) ==
  [node_type |-> type, level |-> l, slot_use |-> 0, parent |-> NULL_PID,
   base |-> NULL, chain_length |-> 0,
   key |-> 0, value |-> 0, has_value |-> FALSE,
   side |-> NULL_PID, right |-> 0, right_most |-> FALSE,
   slot_key |-> << >>, slot_data |-> << >>, child_pid |-> << >>,
   next_leaf |-> NULL_PID, prev_leaf |-> NULL_PID, freed |-> FALSE]

IsLeaf(nd) == nd.level = 0

IsDelta(nd) == nd.node_type # "leaf_node" /\ nd.node_type # "inner_node"

\* the fullness tests of the mutators: slot_use against the slot maximum
IsLeafFull(nd) == nd.slot_use = leaf_slot_max

IsInnerFull(nd) == nd.slot_use = inner_slot_max

KeyLess(a, b) == a < b

KeyLessEqual(a, b) == ~KeyLess(b, a)

KeyGreater(a, b) == KeyLess(b, a)

KeyGreaterEqual(a, b) == ~KeyLess(a, b)

KeyEqual(a, b) == ~KeyLess(a, b) /\ ~KeyLess(b, a)

\* LeafNode::Initialize
AllocateLeaf == NewNode("leaf_node", 0)

\* InnerNode::Initialize: child_pid[0] = child (child_pid[1] here)
AllocateInner(l, child) == [NewNode("inner_node", l) EXCEPT !.child_pid = <<child>>]

AllocateInsert(k, v, l) == [NewNode("insert_node", l) EXCEPT !.key = k, !.value = v]

AllocateUpdate(k, v, l) == [NewNode("update_node", l) EXCEPT !.key = k, !.value = v]

\* a faulty AllocateDeleteNoValue: the record says it carries a value, so the
\* fold takes it for the delete of one pair
AllocateDeleteFlagged(k, l) ==
  [NewNode("delete_node", l) EXCEPT !.key = k, !.has_value = TRUE]

AllocateDeleteNoValue(k, l) == [NewNode("delete_node", l) EXCEPT !.key = k]

AllocateDeleteWithValue(k, v, l) ==
  [NewNode("delete_node", l) EXCEPT !.key = k, !.value = v, !.has_value = TRUE]

AllocateSplit(k, pid, l) == [NewNode("split_node", l) EXCEPT !.key = k, !.side = pid]

\* a faulty AllocateSeparator: every Separator record is right-most
AllocateSeparatorRightMost(left_key, right_key, pid, l) ==
  [NewNode("separator_node", l) EXCEPT !.key = left_key, !.right = right_key,
                                       !.side = pid, !.right_most = TRUE]

\* right_most is set when left_key and right_key are equal
AllocateSeparator(left_key, right_key, pid, l) ==
  [NewNode("separator_node", l) EXCEPT !.key = left_key, !.right = right_key,
                                       !.side = pid,
                                       !.right_most = KeyEqual(left_key, right_key)]

\* SetBase, SetLength and SetSize as every mutator applies them to its delta
OnTop(h, d, n, size) ==
  [d EXCEPT !.base = n,
            !.chain_length = IF IsDelta(h[n]) THEN h[n].chain_length + 1 ELSE 1,
            !.slot_use = size]

\* ------------------------------------------------------------- value lists

\* ValueList::FindValue: the index of the first occurrence, 0 for "not found"
FindValue(vl, v) ==
  IF \E i \in DOMAIN vl : vl[i] = v
  THEN CHOOSE i \in DOMAIN vl : vl[i] = v /\ \A j \in 1..(i - 1) : vl[j] # v
  ELSE 0

InsertValue(vl, v) == Append(vl, v)

\* ValueList::RemoveValue: erases the first occurrence
Erase(vl, i) == IF i = 0 THEN vl ELSE SubSeq(vl, 1, i - 1) \o SubSeq(vl, i + 1, Len(vl))

RemoveValue(vl, v) == Erase(vl, FindValue(vl, v))

\* --------------------------------------------------------------- the tree

\* the tree after construction: BWTree::BWTree and MappingTable::Initialize.
\* table holds only the slots that are not null.
EmptyTree ==
  [heap |-> << >>, table |-> << >>, m_root |-> NULL_PID, m_headleaf |-> NULL_PID,
   m_tailleaf |-> NULL_PID, pid_counter |-> 0]

\* MappingTable::Get; a pid outside the table is an out-of-bounds read
Get(t, pid) ==
  IF pid < 0 \/ pid >= MAPPING_TABLE_SIZE THEN UB
  ELSE IF pid \in DOMAIN t.table THEN t.table[pid] ELSE NULL

GetNode(t, pid) == Get(t, pid)

\* operator new of a node
Alloc(t, nd) == [t EXCEPT !.heap = Append(@, nd)]

LastNode(t) == Len(t.heap)

\* FreeNode: the node is destroyed; the slots that hold it keep the pointer
FreeNode(t, n) == [t EXCEPT !.heap[n].freed = TRUE]

\* the compare-and-swap of MappingTable::Update (bwtree.h:411)
CasOk(t, pid, old) == Get(t, pid) = old

Update(t, pid, value) ==
  [t EXCEPT !.table = [p \in (DOMAIN @) \cup {pid} |-> IF p = pid THEN value ELSE @[p]]]

RECURSIVE GetBaseNode(_, _)
GetBaseNode(h, n) == IF IsDelta(h[n]) THEN GetBaseNode(h, h[n].base) ELSE n

\* ------------------------------------------------------- the fold of a leaf

VectorContainsData(data, k, v) == \E i \in DOMAIN data : KeyEqual(k, data[i][1]) /\ v = data[i][2]

KeyVectorContainsKey(keys, k) == \E i \in DOMAIN keys : KeyEqual(k, keys[i])

\* the while loop of GetAllData (bwtree.h:887-929): the chain is walked from
\* the head n to the base, and an Insert or Update record is kept unless a
\* record met before it (a later one) deletes its pair or its key or splits
\* its key away
RECURSIVE WalkChain(_, _, _)
WalkChain(h, n, acc) ==
  IF ~IsDelta(h[n]) THEN [acc EXCEPT !.leaf = n]
  ELSE LET d == h[n]
           kept == (~acc.has_split \/ KeyLess(d.key, acc.split_key))
                   /\ ~VectorContainsData(acc.deleted, d.key, d.value)
                   /\ ~KeyVectorContainsKey(acc.deleted_key, d.key)
           acc2 == CASE d.node_type \in {"insert_node", "update_node"} ->
                          IF kept THEN [acc EXCEPT !.inserted = Append(@, <<d.key, d.value>>)]
                          ELSE acc
                     [] d.node_type = "delete_node" ->
                          IF d.has_value
                          THEN [acc EXCEPT !.deleted = Append(@, <<d.key, d.value>>)]
                          ELSE [acc EXCEPT !.deleted_key = Append(@, d.key)]
                     [] d.node_type = "split_node" ->
                          IF ~acc.has_split
                          THEN [acc EXCEPT !.has_split = TRUE, !.split_key = d.key]
                          ELSE acc
                     [] OTHER -> acc
       IN  WalkChain(h, d.base, acc2)

\* bwtree.h:933-939: the slots of the base page that are neither split away
\* nor deleted by key
RECURSIVE BaseSlots(_, _, _)
BaseSlots(leaf, acc, slot) ==
  IF slot > leaf.slot_use THEN << >>
  ELSE LET rest == BaseSlots(leaf, acc, slot + 1)
       IN  IF (~acc.has_split \/ KeyLess(leaf.slot_key[slot], acc.split_key))
              /\ ~KeyVectorContainsKey(acc.deleted_key, leaf.slot_key[slot])
           THEN <<[key |-> leaf.slot_key[slot], vals |-> leaf.slot_data[slot]]>> \o rest
           ELSE rest

\* bwtree.h:941-947: each deleted pair removes one value from the base's list
RECURSIVE ApplyDeleted(_, _, _)
ApplyDeleted(result, deleted, i) ==
  IF i > Len(deleted) THEN result
  ELSE ApplyDeleted(
         [j \in DOMAIN result |->
            IF KeyEqual(deleted[i][1], result[j].key)
            THEN [result[j] EXCEPT !.vals = RemoveValue(@, deleted[i][2])]
            ELSE result[j]],
         deleted, i + 1)

\* bwtree.h:950-964: the kept pairs are appended in the order of the walk
RECURSIVE ApplyInserted(_, _, _)
ApplyInserted(result, inserted, i) ==
  IF i > Len(inserted) THEN result
  ELSE LET k == inserted[i][1]
           v == inserted[i][2]
       IN  ApplyInserted(
             IF \E j \in DOMAIN result : KeyEqual(k, result[j].key)
             THEN LET j == CHOOSE j \in DOMAIN result :
                             /\ KeyEqual(k, result[j].key)
                             /\ \A m \in 1..(j - 1) : ~KeyEqual(k, result[m].key)
                  IN  [result EXCEPT ![j].vals = InsertValue(@, v)]
             ELSE Append(result, [key |-> k, vals |-> InsertValue(<< >>, v)]),
             inserted, i + 1)

\* bwtree.h:970-977: the exchange sort by key
RECURSIVE SortInner(_, _, _)
SortInner(result, i, j) ==
  IF j > Len(result) THEN result
  ELSE SortInner(IF KeyGreater(result[i].key, result[j].key)
                 THEN [result EXCEPT ![i] = result[j], ![j] = result[i]]
                 ELSE result,
                 i, j + 1)

RECURSIVE SortOuter(_, _)
SortOuter(result, i) ==
  IF i > Len(result) - 1 THEN result
  ELSE SortOuter(SortInner(result, i, i + 1), i + 1)

\* GetAllData: the sequence of [key, vals] that a leaf chain folds to
SortResult(result) == IF Len(result) = 0 THEN result ELSE SortOuter(result, 1)

\* bwtree.h:931-977: what GetAllData makes of the records acc of the walk
FoldBase(h, acc) ==
  SortResult(ApplyInserted(ApplyDeleted(BaseSlots(h[acc.leaf], acc, 1), acc.deleted, 1),
                           acc.inserted, 1))

GetAllData(h, n) ==
  FoldBase(h, WalkChain(h, n, [inserted |-> << >>, deleted |-> << >>,
                               deleted_key |-> << >>, has_split |-> FALSE,
                               split_key |-> 0, leaf |-> NULL]))

\* LeafContainsKey: the first Insert or Delete record of the key decides
RECURSIVE LeafContainsKey(_, _, _)
LeafContainsKey(h, n, k) ==
  LET nd == h[n]
  IN  IF IsDelta(nd)
      THEN IF nd.node_type = "insert_node" /\ KeyEqual(k, nd.key) THEN TRUE
           ELSE IF nd.node_type = "delete_node" /\ KeyEqual(k, nd.key) THEN FALSE
           ELSE LeafContainsKey(h, nd.base, k)
      ELSE \E slot \in 1..nd.slot_use : KeyEqual(k, nd.slot_key[slot])

\* isInRange: a Split record in the chain moved the keys from its key on to
\* the sibling
RECURSIVE isInRange(_, _, _)
isInRange(h, n, k) ==
  LET nd == h[n]
  IN  IF ~IsDelta(nd) THEN TRUE
      ELSE IF nd.node_type = "split_node" /\ KeyGreaterEqual(k, nd.key) THEN FALSE
      ELSE isInRange(h, nd.base, k)

\* VectorContainsKey2 over the fold
VectorContainsKey2(data, k) == \E i \in DOMAIN data : KeyEqual(k, data[i].key)

\* the pairs that Search and SearchAll push for one fold
RECURSIVE Flatten(_)
Flatten(data) ==
  IF Len(data) = 0 THEN << >>
  ELSE [i \in 1..Len(data[1].vals) |-> <<data[1].key, data[1].vals[i]>>] \o Flatten(Tail(data))

\* ------------------------------------------------------ routing at an inner

\* the base search of FindNextPID: the first slot whose key is not less
RECURSIVE LowerSlot(_, _, _)
LowerSlot(inner, k, lo) ==
  IF lo <= inner.slot_use /\ KeyLess(inner.slot_key[lo], k)
  THEN LowerSlot(inner, k, lo + 1) ELSE lo

\* the chain walk of FindNextPID from node n; UB when the chain ends in a
\* page that is no inner page (the static_cast<InnerNode *> of a leaf)
RECURSIVE FindNextFrom(_, _, _)
FindNextFrom(h, n, k) ==
  LET nd == h[n]
  IN  IF IsDelta(nd)
      THEN IF /\ nd.node_type = "separator_node"
              /\ KeyLessEqual(nd.key, k)
              /\ (nd.right_most \/ KeyLess(k, nd.right))
           THEN nd.side
           ELSE FindNextFrom(h, nd.base, k)
      ELSE IF nd.node_type # "inner_node" THEN UB
      ELSE nd.child_pid[LowerSlot(nd, k, 1)]

\* FindNextPID: reads the slot of pid itself
FindNextPID(t, pid, k) ==
  LET node == Get(t, pid)
  IN  IF node = NULL \/ node = UB THEN UB ELSE FindNextFrom(t.heap, node, k)

\* a faulty FindUpperKey walk: the slots of the base page are not looked at
RECURSIVE UpperFromRecords(_, _, _, _)
UpperFromRecords(h, n, k, upper_key) ==
  LET nd == h[n]
  IN  IF IsDelta(nd)
      THEN UpperFromRecords(h, nd.base, k,
             IF /\ nd.node_type = "separator_node"
                /\ KeyLess(k, nd.key)
                /\ (KeyEqual(k, upper_key) \/ KeyLess(nd.key, upper_key))
             THEN nd.key ELSE upper_key)
      ELSE IF nd.node_type # "inner_node" THEN UB
      ELSE upper_key

\* the chain walk of FindUpperKey
RECURSIVE UpperFrom(_, _, _, _)
UpperFrom(h, n, k, upper_key) ==
  LET nd == h[n]
  IN  IF IsDelta(nd)
      THEN UpperFrom(h, nd.base, k,
             IF /\ nd.node_type = "separator_node"
                /\ KeyLess(k, nd.key)
                /\ (KeyEqual(k, upper_key) \/ KeyLess(nd.key, upper_key))
             THEN nd.key ELSE upper_key)
      ELSE IF nd.node_type # "inner_node" THEN UB
      ELSE IF \E lo \in 1..nd.slot_use : KeyLess(k, nd.slot_key[lo])
      THEN LET lo == CHOOSE lo \in 1..nd.slot_use :
                       /\ KeyLess(k, nd.slot_key[lo])
                       /\ \A m \in 1..(lo - 1) : ~KeyLess(k, nd.slot_key[m])
           IN  IF KeyEqual(k, upper_key) \/ KeyLess(nd.slot_key[lo], upper_key)
               THEN nd.slot_key[lo] ELSE upper_key
      ELSE upper_key

FindUpperKey(t, pid, k) ==
  LET node == Get(t, pid)
  IN  IF node = NULL \/ node = UB THEN UB ELSE UpperFrom(t.heap, node, k, k)

\* GetAllPointer: the (key, child) pairs that an inner chain folds to, from
\* the base slots and the Separator records, without those a Split record
\* moved away, sorted by key
RECURSIVE WalkInner(_, _, _)
WalkInner(h, n, acc) ==
  LET nd == h[n]
  IN  IF ~IsDelta(nd)
      THEN acc.pairs \o
           SelectSeq([i \in 1..nd.slot_use |-> [key |-> nd.slot_key[i], vals |-> nd.child_pid[i + 1]]],
                     LAMBDA p : ~acc.has_split \/ KeyLess(p.key, acc.split_key))
      ELSE WalkInner(h, nd.base,
             CASE nd.node_type = "separator_node" ->
                    IF ~acc.has_split \/ KeyLess(nd.key, acc.split_key)
                    THEN [acc EXCEPT !.pairs = Append(@, [key |-> nd.key, vals |-> nd.side])]
                    ELSE acc
               [] nd.node_type = "split_node" ->
                    IF ~acc.has_split
                    THEN [acc EXCEPT !.has_split = TRUE, !.split_key = nd.key]
                    ELSE acc
               [] OTHER -> acc)

GetAllPointer(h, n) ==
  SortOuter(WalkInner(h, n, [pairs |-> << >>, has_split |-> FALSE, split_key |-> 0]), 1)

\* ------------------------------------------------- the steps of one thread

Mutators == {"insert", "update", "delete_key", "delete_data"}

Readers == {"search", "exists", "search_all"}

\* the local variables of one call
NewFrame(op, k, v) ==
  [pc |-> "start", op |-> op, key |-> k, value |-> v,
   curr_pid |-> NULL_PID, curr_node |-> NULL, prev_pid |-> NULL_PID,
   draft |-> NULL, pid |-> NULL_PID,
   splitting |-> "none", split_pid |-> NULL_PID, n |-> NULL, base_node |-> NULL,
   parent_pid |-> NULL_PID, former_next_pid |-> NULL_PID, former_next |-> NULL,
   split_key |-> 0, next_node |-> NULL, next_pid |-> NULL_PID,
   parent |-> NULL, right_key |-> 0, slot |-> 0,
   leaf_pid |-> NULL_PID, leaf |-> NULL, ret |-> << >>, ub |-> ""]

Idle == [NewFrame("none", 0, 0) EXCEPT !.pc = "idle"]

R(t, f) == [t |-> t, f |-> f]

\* the call returns: its locals die
Return(t, f, ret) ==
  R(t, [NewFrame(f.op, f.key, f.value) EXCEPT !.pc = "done", !.ret = ret])

\* the thread's next access has undefined behaviour
Undefined(t, f, why) ==
  R(t, [NewFrame(f.op, f.key, f.value) EXCEPT !.pc = "undefined", !.ub = why])

\* AllocatePID is "pid_counter++; return pid_counter;": two accesses
IncPidCounter(t) == [t EXCEPT !.pid_counter = @ + 1]

\* the entry of every operation: the mutators test m_root (bwtree.cpp:42),
\* GetLeafNodePID reads m_root (bwtree.h:1031), SearchAll reads m_headleaf
StepStart(t, f) ==
  IF f.op = "consolidate" THEN R(t, [f EXCEPT !.pc = "cons_get"])
  ELSE IF f.op \in Mutators
  THEN R(t, [f EXCEPT !.pc = IF t.m_root = NULL_PID THEN "boot_alloc" ELSE "descend_root"])
  ELSE IF f.op = "search_all"
  THEN R(t, [f EXCEPT !.leaf_pid = t.m_headleaf, !.pc = "sa_get"])
  ELSE R(t, [f EXCEPT !.curr_pid = t.m_root, !.pc = "glp_node"])

\* bwtree.cpp:43-46: AllocateLeaf and the increment of AllocatePID
StepBootAlloc(t, f) ==
  LET t1 == Alloc(t, AllocateLeaf)
  IN  R(IncPidCounter(t1), [f EXCEPT !.draft = LastNode(t1), !.pc = "boot_pid"])

\* the load of AllocatePID
StepBootPid(t, f) == R(t, [f EXCEPT !.pid = t.pid_counter, !.pc = "boot_install"])

\* a faulty bootstrap: the leaf is stored in the slot without comparing
StepBootInstallBlind(t, f) ==
  IF Get(t, f.pid) = UB THEN Undefined(t, f, "table index out of bounds")
  ELSE R(Update(t, f.pid, f.draft), [f EXCEPT !.pc = "boot_root"])

\* bwtree.cpp:47: Update(pid, leaf, NULL), and the increment of the retry
StepBootInstall(t, f) ==
  IF Get(t, f.pid) = UB THEN Undefined(t, f, "table index out of bounds")
  ELSE IF CasOk(t, f.pid, NULL)
  THEN R(Update(t, f.pid, f.draft), [f EXCEPT !.pc = "boot_root"])
  ELSE R(IncPidCounter(t), [f EXCEPT !.pc = "boot_pid"])

\* bwtree.cpp:51-55: the compare-and-swap of m_root from NULL_PID
StepBootRoot(t, f) ==
  IF t.m_root = NULL_PID
  THEN R([t EXCEPT !.m_root = f.pid], [f EXCEPT !.pc = "boot_head"])
  ELSE R(FreeNode(t, f.draft), [f EXCEPT !.pc = "descend_root"])

\* bwtree.cpp:52
StepBootHead(t, f) ==
  R([t EXCEPT !.m_headleaf = f.pid, !.m_tailleaf = f.pid], [f EXCEPT !.pc = "descend_root"])

\* after the sibling loop read a node: isInRange decides (bwtree.cpp:83)
RangeCheck(t, f) ==
  R(t, [f EXCEPT !.pc = IF isInRange(t.heap, f.curr_node, f.key) THEN "install" ELSE "sibling"])

\* after the descent read a node: the test of while (!curr_node->IsLeaf())
AfterNode(t, f) ==
  IF f.curr_node = NULL THEN Undefined(t, f, "null node dereferenced")
  ELSE IF ~IsLeaf(t.heap[f.curr_node]) THEN R(t, [f EXCEPT !.pc = "descend_next"])
  ELSE RangeCheck(t, f)

\* curr_pid = FindNextPID(curr_pid, key), of a descent that goes on at pc
DescendTo(t, f, p, pc) ==
  IF p = UB THEN Undefined(t, f, "FindNextPID on a page that is no inner page")
  ELSE R(t, [f EXCEPT !.curr_pid = p, !.pc = pc])

\* bwtree.cpp:69
StepDescendRoot(t, f) == R(t, [f EXCEPT !.curr_pid = t.m_root, !.pc = "descend_node"])

\* bwtree.cpp:70: the second read of m_root
StepDescendNode(t, f) == AfterNode(t, [f EXCEPT !.curr_node = GetNode(t, t.m_root)])

\* bwtree.cpp:75
StepDescendNext(t, f) == DescendTo(t, f, FindNextPID(t, f.curr_pid, f.key), "descend_get")

\* bwtree.cpp:77
StepDescendGet(t, f) == AfterNode(t, [f EXCEPT !.curr_node = GetNode(t, f.curr_pid)])

\* bwtree.cpp:85-86: the next_leaf of the base page
StepSibling(t, f) ==
  R(t, [f EXCEPT !.prev_pid = f.curr_pid,
                 !.curr_pid = t.heap[GetBaseNode(t.heap, f.curr_node)].next_leaf,
                 !.pc = "sibling_get"])

\* bwtree.cpp:87-89; only InsertData tests the node for NULL
StepSiblingGet(t, f) ==
  LET node == GetNode(t, f.curr_pid)
  IN  IF node = NULL
      THEN IF f.op = "insert" THEN R(t, [f EXCEPT !.curr_node = NULL, !.pc = "sibling_back"])
           ELSE Undefined(t, f, "null node dereferenced")
      ELSE RangeCheck(t, [f EXCEPT !.curr_node = node])

\* bwtree.cpp:91-92
StepSiblingBack(t, f) ==
  LET node == GetNode(t, f.prev_pid)
  IN  RangeCheck(t, [f EXCEPT !.curr_pid = f.prev_pid, !.curr_node = node])

\* the delta record each mutator builds on the head curr_node
\* (bwtree.cpp:99-108, 181-189, 242-250, 307-316)
BuildDelta(t, f) ==
  LET h == t.heap
      nd == h[f.curr_node]
  IN  CASE f.op = "insert" ->
             OnTop(h, AllocateInsert(f.key, f.value, nd.level), f.curr_node,
                   (IF LeafContainsKey(h, f.curr_node, f.key) THEN 0 ELSE 1) + nd.slot_use)
        [] f.op = "update" ->
             OnTop(h, AllocateUpdate(f.key, f.value, nd.level), f.curr_node, nd.slot_use)
        [] f.op = "delete_key" ->
             OnTop(h, AllocateDeleteNoValue(f.key, nd.level), f.curr_node, nd.slot_use)
        [] f.op = "delete_data" ->
             OnTop(h, AllocateDeleteWithValue(f.key, f.value, nd.level), f.curr_node, nd.slot_use)

\* a faulty install: the new head is stored without comparing
InstallDeltaBlind(t, f, d) ==
  IF f.op = "insert" /\ IsLeafFull(d)
  THEN R(Update(Alloc(t, d), f.curr_pid, LastNode(t) + 1),
         [f EXCEPT !.splitting = "leaf", !.split_pid = f.curr_pid,
                   !.pc = "split_root"])
  ELSE Return(Update(Alloc(t, d), f.curr_pid, LastNode(t) + 1), f, << >>)

\* the compare-and-swap that installs the delta, and what follows it
InstallDelta(t, f, d) ==
  IF CasOk(t, f.curr_pid, f.curr_node)
  THEN IF f.op = "insert" /\ IsLeafFull(d)
       THEN R(Update(Alloc(t, d), f.curr_pid, LastNode(t) + 1),
              [f EXCEPT !.splitting = "leaf", !.split_pid = f.curr_pid,
                        !.pc = "split_root"])
       ELSE Return(Update(Alloc(t, d), f.curr_pid, LastNode(t) + 1), f, << >>)
  ELSE R(FreeNode(Alloc(t, d), LastNode(t) + 1), [f EXCEPT !.pc = "descend_root"])

StepInstall(t, f) ==
  IF f.op = "update" /\ ~LeafContainsKey(t.heap, f.curr_node, f.key)
  THEN Return(t, f, << >>)
  ELSE InstallDelta(t, f, BuildDelta(t, f))

\* ------------------------------------------------ SplitLeaf and SplitInner

SplitLoop(f) == IF f.splitting = "leaf" THEN "sl_loop" ELSE "si_loop"

\* bwtree.cpp:338 and 508: if (m_root == pid)
StepSplitRoot(t, f) ==
  R(t, [f EXCEPT !.pc = IF t.m_root = f.split_pid THEN "pr_alloc" ELSE SplitLoop(f)])

\* bwtree.cpp:339-345 and 509-515: the draft of the new root, and the
\* increment of AllocatePID
StepPromoteAlloc(t, f) ==
  LET base == GetBaseNode(t.heap, GetNode(t, f.split_pid))
      l == IF f.splitting = "leaf" THEN 1 ELSE t.heap[base].level + 1
      t1 == Alloc(t, AllocateInner(l, f.split_pid))
  IN  R(IncPidCounter(t1),
        [f EXCEPT !.base_node = base, !.draft = LastNode(t1), !.pc = "pr_pid"])

StepPromotePid(t, f) == R(t, [f EXCEPT !.pid = t.pid_counter, !.pc = "pr_install"])

\* bwtree.cpp:347
StepPromoteInstall(t, f) ==
  IF Get(t, f.pid) = UB THEN Undefined(t, f, "table index out of bounds")
  ELSE IF CasOk(t, f.pid, NULL)
  THEN R(Update(t, f.pid, f.draft), [f EXCEPT !.pc = "pr_cas"])
  ELSE R(IncPidCounter(t), [f EXCEPT !.pc = "pr_pid"])

\* a faulty root promotion: the root field is stored without comparing
StepPromoteCasBlind(t, f) == R([t EXCEPT !.m_root = f.pid], [f EXCEPT !.pc = "pr_parent"])

\* bwtree.cpp:351-356: the compare-and-swap of m_root from pid to new_root
StepPromoteCas(t, f) ==
  IF t.m_root = f.split_pid
  THEN R([t EXCEPT !.m_root = f.pid], [f EXCEPT !.pc = "pr_parent"])
  ELSE R(FreeNode(t, f.draft), [f EXCEPT !.pc = SplitLoop(f)])

\* bwtree.cpp:352
StepPromoteParent(t, f) ==
  R([t EXCEPT !.heap[f.base_node].parent = f.pid], [f EXCEPT !.pc = "pr_store"])

\* bwtree.cpp:353
StepPromoteStore(t, f) == R([t EXCEPT !.m_root = f.pid], [f EXCEPT !.pc = SplitLoop(f)])

\* bwtree.cpp:366-373
StepLeafLoop(t, f) ==
  LET n == GetNode(t, f.split_pid)
  IN  IF ~IsLeafFull(t.heap[n]) THEN Return(t, f, << >>)
      ELSE R(t, [f EXCEPT !.n = n, !.base_node = GetBaseNode(t.heap, n), !.pc = "sl_parent"])

\* bwtree.cpp:374 and 543
StepSplitParent(t, f) ==
  R(t, [f EXCEPT !.parent_pid = t.heap[f.base_node].parent,
                 !.pc = IF f.splitting = "leaf" THEN "sl_next" ELSE "si_next"])

\* bwtree.cpp:377-404: the old neighbour, the fold, the split key, the draft
\* of the sibling and the increment of AllocatePID
LeafNext(t, f, former, buffer) ==
  IF Len(buffer) = 0 THEN Undefined(t, f, "buffer[0] of an empty vector")
  ELSE R(IncPidCounter(Alloc(t, [AllocateLeaf EXCEPT !.parent = f.parent_pid])),
         [f EXCEPT !.former_next_pid = former,
                   !.former_next = IF former # NULL_PID
                                   THEN GetBaseNode(t.heap, GetNode(t, former))
                                   ELSE NULL,
                   !.split_key = buffer[Len(buffer) \div 2 + 1].key,
                   !.next_node = LastNode(t) + 1, !.pc = "sl_pid"])

StepLeafNext(t, f) ==
  LeafNext(t, f, t.heap[f.base_node].next_leaf, GetAllData(t.heap, f.n))

StepSplitPid(t, f) ==
  R(t, [f EXCEPT !.next_pid = t.pid_counter,
                 !.pc = IF f.splitting = "leaf" THEN "sl_install" ELSE "si_install"])

\* a faulty UpperHalf: the slot at the split position is left out
UpperHalfAfter(buffer, from) == SubSeq(buffer, from + 1, Len(buffer))

\* bwtree.cpp:405-414: the sibling goes into its slot and gets the upper half
\* the elements of buffer from index from on (from pos, 0-based, in the code)
UpperHalf(buffer, from) == SubSeq(buffer, from, Len(buffer))

LeafInstall(t, f, upper) ==
  IF Get(t, f.next_pid) = UB THEN Undefined(t, f, "table index out of bounds")
  ELSE IF ~CasOk(t, f.next_pid, NULL)
  THEN R(IncPidCounter(t), [f EXCEPT !.pc = "sl_pid"])
  ELSE IF Len(upper) > leaf_slot_max THEN Undefined(t, f, "slot_key index out of bounds")
  ELSE R([Update(t, f.next_pid, f.next_node) EXCEPT
            !.heap[f.next_node].slot_key = [i \in 1..Len(upper) |-> upper[i].key],
            !.heap[f.next_node].slot_data = [i \in 1..Len(upper) |-> upper[i].vals],
            !.heap[f.next_node].slot_use = Len(upper)],
         [f EXCEPT !.pc = "sl_cas"])

StepLeafInstall(t, f) ==
  LeafInstall(t, f, UpperHalf(GetAllData(t.heap, f.n), Len(GetAllData(t.heap, f.n)) \div 2 + 1))

\* bwtree.cpp:416-445: the Split record and its compare-and-swap
\* the compare-and-swap of a Split record d onto the node n of split_pid
SplitCas(t, f, d, loop) ==
  IF CasOk(t, f.split_pid, f.n)
  THEN R(Update(Alloc(t, d), f.split_pid, LastNode(t) + 1), [f EXCEPT !.pc = "link1"])
  ELSE R(FreeNode(FreeNode(Alloc(t, d), f.next_node), LastNode(t) + 1), [f EXCEPT !.pc = loop])

StepLeafCas(t, f) ==
  SplitCas(t, f,
           OnTop(t.heap, AllocateSplit(f.split_key, f.next_pid, t.heap[f.n].level),
                 f.n, Len(GetAllData(t.heap, f.n)) \div 2),
           "sl_loop")

\* bwtree.cpp:427 and 585
StepLink1(t, f) ==
  R([t EXCEPT !.heap[f.base_node].next_leaf = f.next_pid], [f EXCEPT !.pc = "link2"])

\* bwtree.cpp:429 and 586
StepLink2(t, f) ==
  R([t EXCEPT !.heap[f.next_node].next_leaf = f.former_next_pid],
    [f EXCEPT !.slot = 0, !.pc = IF f.splitting = "leaf" THEN "sl_link3" ELSE "si_child"])

\* bwtree.cpp:430
StepLeafLink3(t, f) ==
  R([t EXCEPT !.heap[f.next_node].prev_leaf = f.split_pid],
    [f EXCEPT !.pc = IF f.former_next_pid # NULL_PID THEN "sl_link4" ELSE "sep_get"])

\* bwtree.cpp:432-434
StepLeafLink4(t, f) ==
  R([t EXCEPT !.heap[f.former_next].prev_leaf = f.next_pid], [f EXCEPT !.pc = "sep_get"])

\* bwtree.cpp:460 and 608
StepSepGet(t, f) == R(t, [f EXCEPT !.parent = GetNode(t, f.parent_pid), !.pc = "sep_upper"])

\* bwtree.cpp:461 and 609: FindUpperKey reads the slot of parent_pid again
SepUpper(t, f, k) ==
  IF k = UB THEN Undefined(t, f, "FindUpperKey on a page that is no inner page")
  ELSE R(t, [f EXCEPT !.right_key = k, !.pc = "sep_cas"])

StepSepUpper(t, f) == SepUpper(t, f, FindUpperKey(t, f.parent_pid, f.split_key))

\* bwtree.cpp:463-483 and 611-630: the Separator record and its
\* compare-and-swap; a full parent is split in turn
SepCas(t, f, d) ==
  IF CasOk(t, f.parent_pid, f.parent)
  THEN IF IsInnerFull(d)
       THEN R(Update(Alloc(t, d), f.parent_pid, LastNode(t) + 1),
              [f EXCEPT !.splitting = "inner", !.split_pid = f.parent_pid,
                        !.pc = "split_root"])
       ELSE Return(Update(Alloc(t, d), f.parent_pid, LastNode(t) + 1), f, << >>)
  ELSE R(FreeNode(Alloc(t, d), LastNode(t) + 1), [f EXCEPT !.pc = "sep_get"])

StepSepCas(t, f) ==
  IF f.parent = NULL THEN Undefined(t, f, "null node dereferenced")
  ELSE SepCas(t, f, OnTop(t.heap,
                          AllocateSeparator(f.split_key, f.right_key, f.next_pid,
                                            t.heap[f.parent].level),
                          f.parent, 1 + t.heap[f.parent].slot_use))

\* bwtree.cpp:536-542
StepInnerLoop(t, f) ==
  LET n == GetNode(t, f.split_pid)
  IN  IF ~IsInnerFull(t.heap[n]) THEN Return(t, f, << >>)
      ELSE R(t, [f EXCEPT !.n = n, !.base_node = GetBaseNode(t.heap, n), !.pc = "si_parent"])

\* bwtree.cpp:546-560
InnerNext(t, f, buffer) ==
  IF Len(buffer) = 0 THEN Undefined(t, f, "buffer[0] of an empty vector")
  ELSE R(IncPidCounter(Alloc(t, [AllocateInner(t.heap[f.n].level,
                                               buffer[Len(buffer) \div 2 + 1].vals)
                                   EXCEPT !.parent = f.parent_pid])),
         [f EXCEPT !.former_next_pid = t.heap[f.base_node].next_leaf,
                   !.split_key = buffer[Len(buffer) \div 2 + 1].key,
                   !.next_node = LastNode(t) + 1, !.pc = "sl_pid"])

StepInnerNext(t, f) == InnerNext(t, f, GetAllPointer(t.heap, f.n))

\* bwtree.cpp:561-571: the sibling gets the pairs after the split key
InnerInstall(t, f, upper) ==
  IF Get(t, f.next_pid) = UB THEN Undefined(t, f, "table index out of bounds")
  ELSE IF ~CasOk(t, f.next_pid, NULL)
  THEN R(IncPidCounter(t), [f EXCEPT !.pc = "sl_pid"])
  ELSE IF Len(upper) > inner_slot_max THEN Undefined(t, f, "slot_key index out of bounds")
  ELSE R([Update(t, f.next_pid, f.next_node) EXCEPT
            !.heap[f.next_node].slot_key = [i \in 1..Len(upper) |-> upper[i].key],
            !.heap[f.next_node].child_pid =
                <<t.heap[f.next_node].child_pid[1]>> \o [i \in 1..Len(upper) |-> upper[i].vals],
            !.heap[f.next_node].slot_use = Len(upper)],
         [f EXCEPT !.pc = "si_cas"])

StepInnerInstall(t, f) ==
  InnerInstall(t, f, UpperHalf(GetAllPointer(t.heap, f.n),
                               Len(GetAllPointer(t.heap, f.n)) \div 2 + 2))

\* bwtree.cpp:573-601
StepInnerCas(t, f) ==
  SplitCas(t, f,
           OnTop(t.heap, AllocateSplit(f.split_key, f.next_pid, t.heap[f.n].level),
                 f.n, Len(GetAllPointer(t.heap, f.n)) \div 2 - 1),
           "si_loop")

\* bwtree.cpp:588-591: one turn of the loop over the sibling's children
StepInnerChild(t, f) ==
  LET sib == t.heap[f.next_node]
  IN  IF f.slot > sib.slot_use THEN R(t, [f EXCEPT !.pc = "sep_get"])
      ELSE LET child == GetNode(t, sib.child_pid[f.slot + 1])
           IN  IF child = NULL \/ child = UB THEN Undefined(t, f, "null node dereferenced")
               ELSE R([t EXCEPT !.heap[GetBaseNode(t.heap, child)].parent = f.next_pid],
                      [f EXCEPT !.slot = f.slot + 1])

\* ------------------------------------------------------------ the readers

\* what the descent of GetLeafNodePID does with the node it read
\* (bwtree.h:1034-1037): no root gives (size_t)-1
AfterGlp(t, f) ==
  IF f.curr_node = NULL
  THEN IF f.pc = "glp_node" THEN R(t, [f EXCEPT !.leaf_pid = SIZE_MAX, !.pc = "read_leaf"])
       ELSE Undefined(t, f, "null node dereferenced")
  ELSE IF IsLeaf(t.heap[f.curr_node])
  THEN R(t, [f EXCEPT !.leaf_pid = f.curr_pid, !.pc = "read_leaf"])
  ELSE R(t, [f EXCEPT !.pc = "glp_next"])

\* bwtree.h:1032: the second read of m_root
StepGlpNode(t, f) == AfterGlp(t, [f EXCEPT !.curr_node = Get(t, t.m_root)])

\* bwtree.h:1039
StepGlpNext(t, f) == DescendTo(t, f, FindNextPID(t, f.curr_pid, f.key), "glp_get")

\* bwtree.h:1040
StepGlpGet(t, f) == AfterGlp(t, [f EXCEPT !.curr_node = Get(t, f.curr_pid)])

\* a faulty reader: it frees the head that it read
ReadLeafFreeing(t, f, leaf) ==
  IF leaf = UB \/ leaf = NULL THEN Undefined(t, f, "null node dereferenced")
  ELSE Return(FreeNode(t, leaf), f, << >>)

\* bwtree.cpp:644-656 and 668-707.  PID is size_t, so "leaf_pid < 0" is
\* never true and the slot of leaf_pid is read whatever GetLeafNodePID
\* returned.
ReadLeaf(t, f, leaf) ==
  IF leaf = UB THEN Undefined(t, f, "table index out of bounds")
  ELSE IF leaf = NULL THEN Undefined(t, f, "null node dereferenced")
  ELSE Return(t, f, IF f.op = "exists"
                    THEN VectorContainsKey2(GetAllData(t.heap, leaf), f.key)
                    ELSE Flatten(SelectSeq(GetAllData(t.heap, leaf),
                                           LAMBDA p : KeyEqual(f.key, p.key))))

StepReadLeaf(t, f) == ReadLeaf(t, f, Get(t, f.leaf_pid))

\* bwtree.cpp:719-742 and 746: the head of the leaf is read and folded
StepScanGet(t, f) ==
  LET leaf == Get(t, f.leaf_pid)
  IN  IF f.leaf_pid = NULL_PID THEN Return(t, f, f.ret)
      ELSE IF leaf = NULL \/ leaf = UB THEN Undefined(t, f, "null node dereferenced")
      ELSE R(t, [f EXCEPT !.leaf = leaf,
                          !.ret = f.ret \o Flatten(GetAllData(t.heap, leaf)),
                          !.pc = "sa_next"])

\* bwtree.cpp:744: the next_leaf of the base page
StepScanNext(t, f) ==
  LET next == t.heap[GetBaseNode(t.heap, f.leaf)].next_leaf
  IN  IF next = NULL_PID THEN Return(t, f, f.ret)
      ELSE R(t, [f EXCEPT !.leaf_pid = next, !.pc = "sa_get"])

\* ------------------------------------- ConsolidateLeafNode, step by step

\* bwtree.cpp:824: Node *old = mapping_table.Get(pid); the pid is f.key
StepConsGet(t, f) == R(t, [f EXCEPT !.n = Get(t, f.key), !.pc = "cons_build"])

\* bwtree.cpp:826-850: the draft of the new base page.  parent and level
\* are those of old, node is old or the record under it, the links are read
\* from node as from a leaf and GetAllData folds from node on
ConsDraft(h, old, node) ==
  [AllocateLeaf EXCEPT
     !.parent = h[old].parent,
     !.level = h[old].level,
     !.next_leaf = h[node].next_leaf,
     !.prev_leaf = h[node].prev_leaf,
     !.slot_use = Len(GetAllData(h, node)),
     !.slot_key = [i \in DOMAIN GetAllData(h, node) |-> GetAllData(h, node)[i].key],
     !.slot_data = [i \in DOMAIN GetAllData(h, node) |-> GetAllData(h, node)[i].vals]]

ConsBuild(t, f, node) ==
  IF IsDelta(t.heap[node]) THEN Undefined(t, f, "next_leaf of a record that is no leaf")
  ELSE IF Len(GetAllData(t.heap, node)) > leaf_slot_max
  THEN Undefined(t, f, "slot_key index out of bounds")
  ELSE R(Alloc(t, ConsDraft(t.heap, f.n, node)),
         [f EXCEPT !.draft = LastNode(t) + 1, !.pc = "cons_cas"])

StepConsBuild(t, f) ==
  IF f.n \in {NULL, UB} THEN Undefined(t, f, "null node dereferenced")
  ELSE ConsBuild(t, f, IF IsDelta(t.heap[f.n]) THEN t.heap[f.n].base ELSE f.n)

\* bwtree.cpp:857-862: the compare-and-swap; the loser destroys its draft and
\* goes round the for (;;) again
StepConsCas(t, f) ==
  IF CasOk(t, f.key, f.n)
  THEN Return(Update(t, f.key, f.draft), f, << >>)
  ELSE R(FreeNode(t, f.draft), [f EXCEPT !.pc = "cons_get"])

\* ------------------------------------------------------------- dispatching

\* the step a thread takes at each place of its operation
Step(t, f) ==
  CASE f.pc = "start" -> StepStart(t, f)
    [] f.pc = "boot_alloc" -> StepBootAlloc(t, f)
    [] f.pc = "boot_pid" -> StepBootPid(t, f)
    [] f.pc = "boot_install" -> StepBootInstall(t, f)
    [] f.pc = "boot_root" -> StepBootRoot(t, f)
    [] f.pc = "boot_head" -> StepBootHead(t, f)
    [] f.pc = "descend_root" -> StepDescendRoot(t, f)
    [] f.pc = "descend_node" -> StepDescendNode(t, f)
    [] f.pc = "descend_next" -> StepDescendNext(t, f)
    [] f.pc = "descend_get" -> StepDescendGet(t, f)
    [] f.pc = "sibling" -> StepSibling(t, f)
    [] f.pc = "sibling_get" -> StepSiblingGet(t, f)
    [] f.pc = "sibling_back" -> StepSiblingBack(t, f)
    [] f.pc = "install" -> StepInstall(t, f)
    [] f.pc = "split_root" -> StepSplitRoot(t, f)
    [] f.pc = "pr_alloc" -> StepPromoteAlloc(t, f)
    [] f.pc = "pr_pid" -> StepPromotePid(t, f)
    [] f.pc = "pr_install" -> StepPromoteInstall(t, f)
    [] f.pc = "pr_cas" -> StepPromoteCas(t, f)
    [] f.pc = "pr_parent" -> StepPromoteParent(t, f)
    [] f.pc = "pr_store" -> StepPromoteStore(t, f)
    [] f.pc = "sl_loop" -> StepLeafLoop(t, f)
    [] f.pc \in {"sl_parent", "si_parent"} -> StepSplitParent(t, f)
    [] f.pc = "sl_next" -> StepLeafNext(t, f)
    [] f.pc = "sl_pid" -> StepSplitPid(t, f)
    [] f.pc = "sl_install" -> StepLeafInstall(t, f)
    [] f.pc = "sl_cas" -> StepLeafCas(t, f)
    [] f.pc = "link1" -> StepLink1(t, f)
    [] f.pc = "link2" -> StepLink2(t, f)
    [] f.pc = "sl_link3" -> StepLeafLink3(t, f)
    [] f.pc = "sl_link4" -> StepLeafLink4(t, f)
    [] f.pc = "sep_get" -> StepSepGet(t, f)
    [] f.pc = "sep_upper" -> StepSepUpper(t, f)
    [] f.pc = "sep_cas" -> StepSepCas(t, f)
    [] f.pc = "si_loop" -> StepInnerLoop(t, f)
    [] f.pc = "si_next" -> StepInnerNext(t, f)
    [] f.pc = "si_install" -> StepInnerInstall(t, f)
    [] f.pc = "si_cas" -> StepInnerCas(t, f)
    [] f.pc = "si_child" -> StepInnerChild(t, f)
    [] f.pc = "glp_node" -> StepGlpNode(t, f)
    [] f.pc = "glp_next" -> StepGlpNext(t, f)
    [] f.pc = "glp_get" -> StepGlpGet(t, f)
    [] f.pc = "read_leaf" -> StepReadLeaf(t, f)
    [] f.pc = "sa_get" -> StepScanGet(t, f)
    [] f.pc = "sa_next" -> StepScanNext(t, f)
    [] f.pc = "cons_get" -> StepConsGet(t, f)
    [] f.pc = "cons_build" -> StepConsBuild(t, f)
    [] f.pc = "cons_cas" -> StepConsCas(t, f)

Ended(f) == f.pc \in {"done", "undefined", "idle"}

\* one thread alone runs its operation to the end
RECURSIVE RunToEnd(_)
RunToEnd(s) == IF Ended(s.f) THEN s ELSE RunToEnd(Step(s.t, s.f))

Call(t, op, k, v) == RunToEnd(R(t, NewFrame(op, k, v)))

\* ------------------------------------------------------------------ bounds

\* the calls of one run of the sequential specification
MaxOps == 3
\* the values are 1..MaxValue
MaxValue == 2

Values == 1..MaxValue

\* the keys of the calls: new keys in the empty tree, a key of the chain and
\* a new key in the unsplit leaf, keys of a base page after a split
OpKeys == {50, 80}

\* the keys the trees of Init are built from, each with value 1
SetupKeys == <<10, 20, 30, 40, 50, 60, 70, 80>>

\* --------------------------------------------------------------- the state

VARIABLES
  tree,   \* the BWTree object: heap, mapping table, m_root, m_headleaf, m_tailleaf, pid_counter
  th,     \* the frame of each thread's running call
  todo,   \* the calls each thread has still to make
  log,    \* the calls that returned, in the order of their return
  hist,   \* the calls made so far
  last,   \* the last call that ran to its end, and its result
  obs,    \* what the readers return in tree
  prev,   \* what the readers returned before the last mutating call
  abs,    \* the multimap that the calls of hist denote (key -> list of values)
  dead,   \* the keys of a DeleteKey call with no InsertData call after it
  twin,   \* the tree that the calls of hist give without the deletes of absent keys and values
  tree0,  \* the tree the run started from
  plan    \* the calls each thread had to make when the run started

vars == <<tree, th, todo, log, hist, last, obs, prev, abs, dead, twin, tree0, plan>>

Threads == {1, 2}

\* what stands for the result of a reader whose behaviour is undefined
NoResult == << <<UB, UB>> >>

\* the result of a call that ran to its end s
Result(s, none) == IF s.f.pc = "done" THEN s.f.ret ELSE none

\* Search(k), Exists(k) and SearchAll in tree t, run alone
Lookup(t, k) == Result(Call(t, "search", k, 0), NoResult)

ExistsIn(t, k) == Result(Call(t, "exists", k, 0), FALSE)

ScanAll(t) == Result(Call(t, "search_all", 0, 0), NoResult)

ReadCalls ==
  {[op |-> o, key |-> k] : o \in {"search", "exists"}, k \in OpKeys}
    \cup {[op |-> "search_all", key |-> 0]}

\* the results r of the calls of ReadCalls as one record; defined says that
\* every one of them returned
Observation(r) ==
  [lookup |-> [k \in OpKeys |-> IF r[[op |-> "search", key |-> k]].pc = "done"
                                THEN r[[op |-> "search", key |-> k]].ret ELSE NoResult],
   exists |-> [k \in OpKeys |-> IF r[[op |-> "exists", key |-> k]].pc = "done"
                                THEN r[[op |-> "exists", key |-> k]].ret ELSE FALSE],
   scan |-> IF r[[op |-> "search_all", key |-> 0]].pc = "done"
            THEN r[[op |-> "search_all", key |-> 0]].ret ELSE NoResult,
   defined |-> \A c \in ReadCalls : r[c].pc = "done"]

Observe(t) == Observation([c \in ReadCalls |-> Call(t, c.op, c.key, 0).f])

\* the values of the pairs of a result
ValuesOf(pairs) == [i \in DOMAIN pairs |-> pairs[i][2]]

\* the number of places of a sequence that hold x
Count(seq, x) == Cardinality({i \in DOMAIN seq : seq[i] = x})

\* the tree after the calls of a sequence, each run alone to its end; no call
\* follows one whose behaviour was undefined
RECURSIVE RunFrom(_, _)
RunFrom(s, calls) ==
  IF Len(calls) = 0 \/ s.f.pc = "undefined" THEN s.t
  ELSE RunFrom(Call(s.t, calls[1].op, calls[1].key, calls[1].value), Tail(calls))

RunCalls(t, calls) == RunFrom(R(t, Idle), calls)

Call3(op, k, v) == [op |-> op, key |-> k, value |-> v]

SetupCalls(n) == [i \in 1..n |-> Call3("insert", SetupKeys[i], 1)]

\* the calls after which a base page holds a key with an empty value list:
\* the first split puts 80 in the base page of the right leaf, DeleteData
\* removes its only value, and the inserts of 51, 52, ... split that leaf
\* again, with 80 in the upper half that GetAllData hands to the new page
EmptiedThenSplit ==
  SetupCalls(leaf_slot_max)
    \o <<Call3("delete_data", 80, 1)>>
    \o [i \in 1..(leaf_slot_max \div 2) |-> Call3("insert", 50 + i, 1)]

\* the multimap of the specification (section 4.4): Insert appends, Delete(k)
\* empties, Delete(k,v) removes the first v, Update overwrites a present key
AbsApply(a, c) ==
  CASE c.op = "insert" -> [a EXCEPT ![c.key] = Append(@, c.value)]
    [] c.op = "delete_key" -> [a EXCEPT ![c.key] = << >>]
    [] c.op = "delete_data" -> [a EXCEPT ![c.key] = RemoveValue(@, c.value)]
    [] c.op = "update" -> [a EXCEPT ![c.key] = IF Len(@) > 0 THEN <<c.value>> ELSE @]
    [] OTHER -> a

AllKeys == {c.key : c \in {EmptiedThenSplit[i] : i \in DOMAIN EmptiedThenSplit}} \cup OpKeys

\* the multimap after the calls of a sequence
RECURSIVE AbsFrom(_, _)
AbsFrom(a, calls) ==
  IF Len(calls) = 0 THEN a ELSE AbsFrom(AbsApply(a, calls[1]), Tail(calls))

AbsSetup(calls) == AbsFrom([k \in AllKeys |-> << >>], calls)

NoCall == [op |-> "none", key |-> 0, value |-> 0, pc |-> "done", ret |-> << >>, ub |-> ""]

Summary(f) ==
  [op |-> f.op, key |-> f.key, value |-> f.value, pc |-> f.pc, ret |-> f.ret, ub |-> f.ub]

\* a DeleteKey of a key that no lookup finds, a DeleteData of a value that no
\* lookup of its key returns, by the observation o before the call
AbsentDelete(c, o) ==
  /\ o.defined
  /\ \/ c.op = "delete_key" /\ o.lookup[c.key] = << >>
     \/ c.op = "delete_data" /\ Count(ValuesOf(o.lookup[c.key]), c.value) = 0

DeadAfter(d, c) ==
  CASE c.op = "delete_key" -> d \cup {c.key}
    [] c.op = "insert" -> d \ {c.key}
    [] OTHER -> d

\* the trees of Init: the empty tree, a root leaf one insert short of full,
\* a tree after its first split, a tree whose base page holds an emptied key
Setups == {SetupCalls(0), SetupCalls(leaf_slot_max - 1), SetupCalls(leaf_slot_max), EmptiedThenSplit}

\* ------------------------------------- the sequential specification: Spec

Init ==
  /\ \E calls \in Setups :
       /\ tree = RunCalls(EmptyTree, calls)
       /\ abs = AbsSetup(calls)
  /\ twin = tree
  /\ tree0 = tree
  /\ obs = Observe(tree)
  /\ prev = obs
  /\ th = [i \in Threads |-> Idle]
  /\ todo = [i \in Threads |-> << >>]
  /\ plan = todo
  /\ log = << >>
  /\ hist = << >>
  /\ last = NoCall
  /\ dead = {}

\* the state after the mutating call c ran alone to its end s
Mutated(c, s) ==
  /\ tree' = s.t
  /\ last' = Summary(s.f)
  /\ obs' = Observe(s.t)
  /\ prev' = obs
  /\ hist' = Append(hist, c)
  /\ abs' = AbsApply(abs, c)
  /\ dead' = DeadAfter(dead, c)
  /\ twin' = IF AbsentDelete(c, obs) THEN twin ELSE Call(twin, c.op, c.key, c.value).t
  /\ UNCHANGED <<th, todo, log, tree0, plan>>

\* the state after a reading call ran alone to its end s
Returned(c, s) ==
  /\ tree' = s.t
  /\ last' = Summary(s.f)
  /\ hist' = Append(hist, c)
  /\ UNCHANGED <<th, todo, log, obs, prev, abs, dead, twin, tree0, plan>>

\* no call follows one whose behaviour was undefined
Running == last.pc # "undefined"

InsertData(k, v) ==
  /\ Running
  /\ Len(hist) < MaxOps
  /\ Mutated([op |-> "insert", key |-> k, value |-> v], Call(tree, "insert", k, v))

UpdateData(k, v) ==
  /\ Running
  /\ Len(hist) < MaxOps
  /\ Mutated([op |-> "update", key |-> k, value |-> v], Call(tree, "update", k, v))

DeleteKey(k) ==
  /\ Running
  /\ Len(hist) < MaxOps
  /\ Mutated([op |-> "delete_key", key |-> k, value |-> 0], Call(tree, "delete_key", k, 0))

DeleteData(k, v) ==
  /\ Running
  /\ Len(hist) < MaxOps
  /\ Mutated([op |-> "delete_data", key |-> k, value |-> v], Call(tree, "delete_data", k, v))

Search(k) ==
  /\ Running
  /\ Len(hist) < MaxOps
  /\ Returned([op |-> "search", key |-> k, value |-> 0], Call(tree, "search", k, 0))

Exists(k) ==
  /\ Running
  /\ Len(hist) < MaxOps
  /\ Returned([op |-> "exists", key |-> k, value |-> 0], Call(tree, "exists", k, 0))

SearchAll ==
  /\ Running
  /\ Len(hist) < MaxOps
  /\ Returned([op |-> "search_all", key |-> 0, value |-> 0], Call(tree, "search_all", 0, 0))

Next ==
  \/ \E k \in OpKeys, v \in Values : InsertData(k, v)
  \/ \E k \in OpKeys, v \in Values : UpdateData(k, v)
  \/ \E k \in OpKeys : DeleteKey(k)
  \/ \E k \in OpKeys, v \in Values : DeleteData(k, v)
  \/ \E k \in OpKeys : Search(k)
  \/ \E k \in OpKeys : Exists(k)
  \/ SearchAll

Spec == Init /\ [][Next]_vars

\* ------------------------------------- the concurrent specification: ConcSpec

\* the places of the bodies of InsertData, UpdateData, DeleteKey and DeleteData
MutatorPcs ==
  {"start", "boot_alloc", "boot_pid", "boot_install", "boot_root", "boot_head",
   "descend_root", "descend_node", "descend_next", "descend_get",
   "sibling", "sibling_get", "sibling_back", "install"}

\* the places of Exists, Search (with GetLeafNodePID) and SearchAll
ReaderPcs == {"start", "glp_node", "glp_next", "glp_get", "read_leaf", "sa_get", "sa_next"}

\* a thread is inside SplitLeaf or SplitInner when its frame says which
Splitting(f, which) == f.splitting = which /\ f.pc \notin {"idle", "done", "undefined"}

\* n inserts of ascending keys, which split the rightmost leaf again and again
Ascending(n) == [i \in 1..n |-> Call3("insert", 10 * i, 1)]

\* a tree of two leaves whose left leaf is one insert short of full
BeforeSplit == SetupCalls(leaf_slot_max) \o <<Call3("insert", 1, 1), Call3("insert", 2, 1), Call3("insert", 3, 1)>>

\* the inserts after which the root, an inner page, is one separator short of full
BeforeCascade == Ascending(leaf_slot_max + (inner_slot_max - 1) * (leaf_slot_max \div 2) - 1)

\* the inserts that split the leaf that owns the keys after a: with the base
\* keys every leaf holds leaf_slot_max / 2 keys and as many more fill it
Burst(a) == [i \in 1..(leaf_slot_max \div 2) |-> Call3("insert", a + i, 1)]

\* the DeleteKey calls that empty a leaf of n keys
EmptyingCalls(n) == [i \in 1..n |-> Call3("delete_key", SetupKeys[i], 0)]

\* the runs of ConcSpec: the calls that build the tree, then the calls of
\* each thread.  Two first inserts; an insert that splits a leaf beside an
\* insert and beside a lookup of the keys that move; an insert that
\* splits a leaf and the root above it beside a lookup; updates, deletes
\* and readers of one leaf; an insert that fills the root leaf beside an
\* insert of a new key and beside an insert of a key the leaf holds; an
\* insert that fills a leaf whose other keys were deleted, beside the
\* delete of its key; inserts that split a leaf below an inner page whose
\* base has slots, beside a lookup.
Scenarios ==
  {[setup |-> << >>,
    todo |-> << <<Call3("insert", 50, 1)>>, <<Call3("insert", 80, 1)>> >>],
   [setup |-> BeforeSplit,
    todo |-> << <<Call3("insert", 4, 1)>>, <<Call3("insert", 15, 1)>> >>],
   [setup |-> BeforeSplit,
    todo |-> << <<Call3("insert", 4, 1)>>, <<Call3("search", 10, 0)>> >>],
   [setup |-> BeforeCascade,
    todo |-> << <<Call3("insert", 10 * (Len(BeforeCascade) + 1), 1)>>, <<Call3("exists", 10, 0)>> >>],
   [setup |-> SetupCalls(leaf_slot_max),
    todo |-> << <<Call3("update", 50, 2), Call3("delete_data", 50, 1)>>,
                <<Call3("delete_key", 80, 0), Call3("search", 50, 0), Call3("search_all", 0, 0)>> >>],
   [setup |-> SetupCalls(leaf_slot_max - 1),
    todo |-> << <<Call3("insert", 80, 1)>>, <<Call3("insert", 90, 1)>> >>],
   [setup |-> SetupCalls(leaf_slot_max - 1),
    todo |-> << <<Call3("insert", 80, 1)>>, <<Call3("insert", 10, 2)>> >>],
   [setup |-> SetupCalls(leaf_slot_max - 1) \o EmptyingCalls(leaf_slot_max - 1),
    todo |-> << <<Call3("insert", 80, 1)>>, <<Call3("delete_key", 80, 0)>> >>],
   [setup |-> Ascending(Len(BeforeCascade) + 1),
    todo |-> << Burst(290), <<Call3("search", 300, 0)>> >>]}

ConcInit ==
  /\ \E sc \in Scenarios :
       /\ tree = RunCalls(EmptyTree, sc.setup)
       /\ todo = sc.todo
  /\ tree0 = tree
  /\ plan = todo
  /\ th = [i \in Threads |-> Idle]
  /\ log = << >>
  /\ hist = << >>
  /\ last = NoCall
  /\ obs = Observe(EmptyTree)
  /\ prev = obs
  /\ abs = AbsSetup(<< >>)
  /\ dead = {}
  /\ twin = EmptyTree

\* no step follows one whose behaviour was undefined
NoneUndefined == \A j \in Threads : th[j].pc # "undefined"

\* thread i took the step s
Stepped(i, s) ==
  /\ tree' = s.t
  /\ th' = [th EXCEPT ![i] = s.f]
  /\ UNCHANGED <<todo, log, hist, last, obs, prev, abs, dead, twin, tree0, plan>>

\* thread i makes its next call
Invoke(i) ==
  /\ NoneUndefined
  /\ th[i].pc = "idle"
  /\ Len(todo[i]) > 0
  /\ th' = [th EXCEPT ![i] = NewFrame(todo[i][1].op, todo[i][1].key, todo[i][1].value)]
  /\ todo' = [todo EXCEPT ![i] = Tail(@)]
  /\ UNCHANGED <<tree, log, hist, last, obs, prev, abs, dead, twin, tree0, plan>>

\* the call of thread i returns to its caller
Respond(i) ==
  /\ NoneUndefined
  /\ th[i].pc = "done"
  /\ log' = Append(log, [thread |-> i, op |-> th[i].op, key |-> th[i].key,
                         value |-> th[i].value, ret |-> th[i].ret])
  /\ th' = [th EXCEPT ![i] = Idle]
  /\ UNCHANGED <<tree, todo, hist, last, obs, prev, abs, dead, twin, tree0, plan>>

InsertDataStep(i) ==
  /\ NoneUndefined
  /\ th[i].op = "insert" /\ th[i].pc \in MutatorPcs
  /\ Stepped(i, Step(tree, th[i]))

UpdateDataStep(i) ==
  /\ NoneUndefined
  /\ th[i].op = "update" /\ th[i].pc \in MutatorPcs
  /\ Stepped(i, Step(tree, th[i]))

DeleteKeyStep(i) ==
  /\ NoneUndefined
  /\ th[i].op = "delete_key" /\ th[i].pc \in MutatorPcs
  /\ Stepped(i, Step(tree, th[i]))

DeleteDataStep(i) ==
  /\ NoneUndefined
  /\ th[i].op = "delete_data" /\ th[i].pc \in MutatorPcs
  /\ Stepped(i, Step(tree, th[i]))

SplitLeafStep(i) ==
  /\ NoneUndefined
  /\ Splitting(th[i], "leaf")
  /\ Stepped(i, Step(tree, th[i]))

SplitInnerStep(i) ==
  /\ NoneUndefined
  /\ Splitting(th[i], "inner")
  /\ Stepped(i, Step(tree, th[i]))

SearchStep(i) ==
  /\ NoneUndefined
  /\ th[i].op = "search" /\ th[i].pc \in ReaderPcs
  /\ Stepped(i, Step(tree, th[i]))

ExistsStep(i) ==
  /\ NoneUndefined
  /\ th[i].op = "exists" /\ th[i].pc \in ReaderPcs
  /\ Stepped(i, Step(tree, th[i]))

SearchAllStep(i) ==
  /\ NoneUndefined
  /\ th[i].op = "search_all" /\ th[i].pc \in ReaderPcs
  /\ Stepped(i, Step(tree, th[i]))

ConcNext ==
  \E i \in Threads :
    \/ Invoke(i)
    \/ InsertDataStep(i)
    \/ UpdateDataStep(i)
    \/ DeleteKeyStep(i)
    \/ DeleteDataStep(i)
    \/ SplitLeafStep(i)
    \/ SplitInnerStep(i)
    \/ SearchStep(i)
    \/ ExistsStep(i)
    \/ SearchAllStep(i)
    \/ Respond(i)

ConcSpec == ConcInit /\ [][ConcNext]_vars

\* ------------------------------------------- the properties of Spec

\* a call of hist is an UpdateData
Updated == \E i \in DOMAIN hist : hist[i].op = "update"

\* the last call is the mutating call op, and the readers returned before it
After(op) == last.op = op /\ last.pc = "done" /\ prev.defined /\ obs.defined

\* C1: after any sequence of insert, update, delete_key and delete_value,
\* lookup(k) returns for every key k exactly the values inserted for k
\* minus those deleted, in the order of their insertion: the list of the
\* multimap abs.
LookupIsInsertedMinusDeleted ==
  obs.defined => \A k \in OpKeys : ValuesOf(obs.lookup[k]) = abs[k]

\* C2: after any sequence of inserts and deletes, scan_all returns its keys
\* in ascending order, and every pair (k, v) inserted and not deleted is in
\* the result exactly as often as it is in the multimap abs.
ScanAllSortedAndExact ==
  (obs.defined /\ ~Updated) =>
    /\ \A i \in 1..(Len(obs.scan) - 1) : KeyLessEqual(obs.scan[i][1], obs.scan[i + 1][1])
    /\ \A i \in DOMAIN obs.scan : obs.scan[i][1] \in AllKeys
    /\ \A k \in AllKeys, v \in Values : Count(obs.scan, <<k, v>>) = Count(abs[k], v)

\* C5: update(k, v) on a key k whose lookup returned at least one value makes
\* the next lookup(k) return exactly [v].
UpdateReplacesList ==
  (After("update") /\ Len(prev.lookup[last.key]) > 0) =>
    obs.lookup[last.key] = << <<last.key, last.value>> >>

\* C6: update(k, v) on a key k that has no live value (never inserted, or
\* all its values deleted: its lookup returned the empty list) has no effect
\* a reader sees: lookup(k) stays empty, exists(k) is false, and the lookup
\* of every other key returns what it returned before.
UpdateOfAbsentKeyHasNoEffect ==
  (After("update") /\ prev.lookup[last.key] = << >>) =>
    /\ obs.lookup[last.key] = << >>
    /\ obs.exists[last.key] = FALSE
    /\ \A o \in OpKeys \ {last.key} : obs.lookup[o] = prev.lookup[o]

\* C7: after delete_key(k), lookup(k) returns the empty list and exists(k)
\* returns false until a later insert of k, and delete_key(k) leaves the
\* lookup of every other key as it was.
DeleteKeyRemovesWholeList ==
  /\ \A k \in dead : obs.lookup[k] = << >> /\ obs.exists[k] = FALSE
  /\ After("delete_key") =>
       \A o \in OpKeys \ {last.key} : obs.lookup[o] = prev.lookup[o]

\* C7, a case of it: a delete_key of a key that held two values, beside a
\* key that holds a value
DeleteKeyOfTwoValuesDone ==
  /\ After("delete_key")
  /\ Len(prev.lookup[last.key]) = 2
  /\ \E o \in OpKeys \ {last.key} : Len(obs.lookup[o]) > 0

\* C8: delete_value(k, v) removes exactly one occurrence of v from the list
\* of k and nothing else: the lookup of k holds one v less than before (as
\* many when it held none) and every other value as often as before.
DeleteValueRemovesOneOccurrence ==
  After("delete_data") =>
    \A v \in Values :
      Count(ValuesOf(obs.lookup[last.key]), v) =
        Count(ValuesOf(prev.lookup[last.key]), v)
          - (IF v = last.value /\ Count(ValuesOf(prev.lookup[last.key]), v) > 0 THEN 1 ELSE 0)

\* C9: delete_key of an absent key and delete_value of an absent value are
\* no-ops: lookup of every key and scan_all return the same before and
\* after, and the same as in the tree twin, which the same calls without
\* such deletes produce, whatever calls follow.
AbsentDeleteIsNoOp ==
  /\ (last.pc = "done" /\ last.op \in {"delete_key", "delete_data"} /\ AbsentDelete(last, prev)) =>
       obs.lookup = prev.lookup /\ obs.scan = prev.scan
  /\ obs.defined =>
       /\ \A k \in OpKeys : Lookup(twin, k) = obs.lookup[k]
       /\ ScanAll(twin) = obs.scan

\* C10: on a freshly constructed tree every reader returns, with the empty
\* result: lookup(k) the empty list, exists(k) false, scan_all the empty
\* list, and no reader reads the mapping table outside its bounds.
FreshTreeReadsEmpty ==
  tree.m_root = NULL_PID =>
    /\ last.pc = "done"
    /\ last.op \in {"search", "search_all"} => last.ret = << >>
    /\ last.op = "exists" => last.ret = FALSE

\* ------------------------------------------- the properties of ConcSpec

\* every call of the run returned
Quiet == \A i \in Threads : th[i].pc = "idle" /\ Len(todo[i]) = 0

\* the calls of plan
Planned == UNION {{plan[i][j] : j \in DOMAIN plan[i]} : i \in Threads}

\* the pairs of a result, as a set
PairsOf(pairs) == {pairs[i] : i \in DOMAIN pairs}

\* the keys the run deals with: those of its calls and those of the tree it
\* started from
WatchKeys == {c.key : c \in Planned} \cup {p[1] : p \in PairsOf(ScanAll(tree0))}

\* the calls of thread i with their thread
Tagged(i) ==
  [j \in DOMAIN plan[i] |->
     [thread |-> i, op |-> plan[i][j].op, key |-> plan[i][j].key, value |-> plan[i][j].value]]

\* the orders in which one thread at a time can make the calls a and b
RECURSIVE Merges(_, _)
Merges(a, b) ==
  IF Len(a) = 0 THEN {b}
  ELSE IF Len(b) = 0 THEN {a}
  ELSE {<<a[1]>> \o m : m \in Merges(Tail(a), b)} \cup {<<b[1]>> \o m : m \in Merges(a, Tail(b))}

\* the tree and the results of the calls of order, each run alone to its end
\* from the tree of s; s is the end of the call before
RECURSIVE SerialFrom(_, _, _)
SerialNext(s, order, rets) ==
  SerialFrom(s, Tail(order),
             Append(rets, [thread |-> order[1].thread, op |-> order[1].op,
                           key |-> order[1].key, value |-> order[1].value,
                           ret |-> s.f.ret]))

SerialFrom(s, order, rets) ==
  IF Len(order) = 0 THEN [t |-> s.t, rets |-> rets]
  ELSE SerialNext(Call(s.t, order[1].op, order[1].key, order[1].value), order, rets)

\* the run agrees with the serial run ser: every thread got the results of
\* its calls in that order, and the readers return in tree what they return
\* in the tree of ser
AgreesWith(ser) ==
  /\ \A i \in Threads :
       SelectSeq(log, LAMBDA e : e.thread = i) = SelectSeq(ser.rets, LAMBDA e : e.thread = i)
  /\ \A k \in WatchKeys : Lookup(tree, k) = Lookup(ser.t, k)
  /\ ScanAll(tree) = ScanAll(ser.t)

\* C3: when the threads have run their inserts, deletes and lookups, the
\* lookup of every key and scan_all return what they return after some
\* serial order of the same calls, and every call returned what it returns
\* in that order.
SomeSerialOrderExplains ==
  Quiet => \E order \in Merges(Tagged(1), Tagged(2)) :
             AgreesWith(SerialFrom(R(tree0, Idle), order, << >>))

\* C4: when two threads have inserted disjoint keys, scan_all holds one
\* entry for every key of the tree and every inserted key, in ascending
\* order, each with its value.
NoInsertLost ==
  (Quiet /\ \A c \in Planned : c.op = "insert") =>
    /\ \A i \in 1..(Len(ScanAll(tree)) - 1) : KeyLess(ScanAll(tree)[i][1], ScanAll(tree)[i + 1][1])
    /\ PairsOf(ScanAll(tree)) = PairsOf(ScanAll(tree0)) \cup {<<c.key, c.value>> : c \in Planned}

\* ------------------------------------ further properties of Spec

\* C11: exists(k) is the boolean form of lookup(k): whenever the readers
\* return, exists(k) is true exactly when lookup(k) returns a non-empty list,
\* for every key k, also after delete_value removed the last value of a key
\* of a base page.
ExistsIsLookupNonEmpty ==
  obs.defined => \A k \in OpKeys : obs.exists[k] = (Len(obs.lookup[k]) > 0)

\* ------------------------------------ further properties of ConcSpec

\* the keys of the tree the run started from that no mutating call of the
\* run names: their value lists are the same in every state of the run
UntouchedKeys ==
  {p[1] : p \in PairsOf(ScanAll(tree0))} \ {c.key : c \in {d \in Planned : d.op \in Mutators}}

\* C12: a leaf split is atomic for readers: in every state of a run, also
\* between the install of the Split record and that of the Separator, a
\* lookup(k) or exists(k) run from that state returns the full value list of
\* k (and true), for the keys below the split key and for those from it on.
ReadersSeeWholeListDuringSplit ==
  \A k \in UntouchedKeys :
    /\ Lookup(tree, k) = Lookup(tree0, k)
    /\ ExistsIn(tree, k) = ExistsIn(tree0, k)

\* --------------------------- the specification of a leaf that fills: FillSpec

\* the keys a run of FillSpec draws its leaf_slot_max distinct keys from
FillKeys == 1..(leaf_slot_max + 1)

\* the keys of s in ascending order
RECURSIVE Ascend(_)
Ascend(s) ==
  IF s = {} THEN << >>
  ELSE LET least == CHOOSE x \in s : \A y \in s : KeyLessEqual(x, y)
       IN  <<least>> \o Ascend(s \ {least})

\* the sequence q turned left by r places, and q from its end to its start
Rotate(q, r) == [i \in DOMAIN q |-> q[((i + r - 1) % Len(q)) + 1]]

Reverse(q) == [i \in DOMAIN q |-> q[Len(q) + 1 - i]]

\* the orders of insertion: leaf_slot_max of the keys, ascending or
\* descending from any of them on
FillOrders ==
  UNION {{Rotate(Ascend(FillKeys \ {x}), r), Rotate(Reverse(Ascend(FillKeys \ {x})), r)} :
           x \in FillKeys, r \in 0..(leaf_slot_max - 1)}

FillInit ==
  /\ tree = EmptyTree
  /\ \E order \in FillOrders :
       todo = [i \in Threads |-> IF i = 1 THEN [j \in DOMAIN order |-> Call3("insert", order[j], 1)]
                                 ELSE << >>]
  /\ plan = todo
  /\ tree0 = tree
  /\ twin = tree
  /\ th = [i \in Threads |-> Idle]
  /\ log = << >>
  /\ hist = << >>
  /\ last = NoCall
  /\ obs = Observe(EmptyTree)
  /\ prev = obs
  /\ abs = AbsSetup(<< >>)
  /\ dead = {}

\* the next InsertData of the run, alone to its end s
Filled(s) ==
  /\ tree' = s.t
  /\ last' = Summary(s.f)
  /\ hist' = Append(hist, todo[1][1])
  /\ todo' = [todo EXCEPT ![1] = Tail(@)]
  /\ UNCHANGED <<th, log, obs, prev, abs, dead, twin, tree0, plan>>

FillInsert ==
  /\ Running
  /\ Len(todo[1]) > 0
  /\ Filled(Call(tree, "insert", todo[1][1].key, todo[1][1].value))

FillNext == FillInsert

FillSpec == FillInit /\ [][FillNext]_vars

\* the pids of the leaves, from m_headleaf along next_leaf; at most n of them
RECURSIVE LeafChain(_, _, _)
LeafChain(t, pid, n) ==
  IF pid = NULL_PID \/ n = 0 \/ Get(t, pid) \in {NULL, UB} THEN << >>
  ELSE <<pid>> \o LeafChain(t, t.heap[GetBaseNode(t.heap, Get(t, pid))].next_leaf, n - 1)

\* the keys that the chain of pid folds to
FoldKeys(t, pid) ==
  [i \in DOMAIN GetAllData(t.heap, Get(t, pid)) |-> GetAllData(t.heap, Get(t, pid))[i].key]

\* the Split records that head or lie in the chain of a page
SplitRecords(t) ==
  {n \in DOMAIN t.heap : t.heap[n].node_type = "split_node" /\ ~t.heap[n].freed}

\* the keys of the run in ascending order
FillSorted == Ascend({plan[1][j].key : j \in DOMAIN plan[1]})

\* C13: leaf_slot_max inserts of distinct keys into one leaf split it exactly
\* once: no split before the last insert, and after it one Split record whose
\* key is the key at position leaf_slot_max / 2 of the sorted keys, and two
\* leaves that hold leaf_slot_max / 2 keys each, the lower and the upper half.
FullLeafSplitsOnceInHalves ==
  /\ last.pc = "done"
  /\ Len(hist) < leaf_slot_max =>
       /\ SplitRecords(tree) = {}
       /\ Len(LeafChain(tree, tree.m_headleaf, leaf_slot_max)) <= 1
  /\ Len(hist) = leaf_slot_max =>
       /\ Cardinality(SplitRecords(tree)) = 1
       /\ \A n \in SplitRecords(tree) : tree.heap[n].key = FillSorted[leaf_slot_max \div 2 + 1]
       /\ Len(LeafChain(tree, tree.m_headleaf, leaf_slot_max)) = 2
       /\ FoldKeys(tree, LeafChain(tree, tree.m_headleaf, leaf_slot_max)[1])
            = SubSeq(FillSorted, 1, leaf_slot_max \div 2)
       /\ FoldKeys(tree, LeafChain(tree, tree.m_headleaf, leaf_slot_max)[2])
            = SubSeq(FillSorted, leaf_slot_max \div 2 + 1, leaf_slot_max)

\* C13, a case of it: the last of leaf_slot_max inserts returned and the
\* leaf chain has a second leaf
FullLeafWasSplit ==
  /\ Len(hist) = leaf_slot_max
  /\ last.op = "insert" /\ last.pc = "done"
  /\ Len(LeafChain(tree, tree.m_headleaf, leaf_slot_max)) = 2

\* the pids that the chain of node n names: the children of an inner page,
\* the child of a Separator record, the sibling of a Split record
RECURSIVE ChainPids(_, _)
ChainPids(h, n) ==
  IF IsDelta(h[n])
  THEN (IF h[n].node_type \in {"split_node", "separator_node"} THEN {h[n].side} ELSE {})
         \cup ChainPids(h, h[n].base)
  ELSE {h[n].child_pid[i] : i \in DOMAIN h[n].child_pid}

\* the pids that the page of pid names
Pointed(t, pid) == IF Get(t, pid) \in {NULL, UB} THEN {} ELSE ChainPids(t.heap, Get(t, pid))

\* the pids that the pages of frontier lead to, with those of seen
RECURSIVE ReachFrom(_, _, _)
ReachFrom(t, seen, frontier) ==
  IF frontier \subseteq seen THEN seen
  ELSE ReachFrom(t, seen \cup frontier, UNION {Pointed(t, p) : p \in frontier})

\* the leaves of the tree: those of the leaf chain and the siblings that
\* their Split records name
ChainLeaves(t) ==
  {LeafChain(t, t.m_headleaf, Len(t.heap))[i] : i \in DOMAIN LeafChain(t, t.m_headleaf, Len(t.heap))}

TreeLeaves(t) == ChainLeaves(t) \cup UNION {Pointed(t, p) : p \in ChainLeaves(t)}

\* the height of the tree: the level of its root page
Height(t) ==
  IF t.m_root = NULL_PID \/ Get(t, t.m_root) \in {NULL, UB} THEN 0
  ELSE t.heap[Get(t, t.m_root)].level

\* once the tree has a root, m_root names a page that is in the mapping
\* table and that leads to every leaf
RootHoldsTree ==
  tree.m_root # NULL_PID =>
    /\ Get(tree, tree.m_root) \notin {NULL, UB}
    /\ ~tree.heap[Get(tree, tree.m_root)].freed
    /\ TreeLeaves(tree) \subseteq ReachFrom(tree, {}, {tree.m_root})

\* a step that replaces the root makes the tree one level higher
RootStep ==
  (tree.m_root # NULL_PID /\ tree'.m_root # tree.m_root) => Height(tree') = Height(tree) + 1

\* C14: every split of the root page, a leaf or an inner page, makes the tree
\* exactly one level higher (the root is replaced before it is split), and in
\* every state the root field names a page of the mapping table from which
\* every leaf of the tree is reached.
RootSplitRaisesHeight == [](RootHoldsTree) /\ [][RootStep]_vars


\* ---------------------------------------------------------------------------
\* One thread suspended at any point of its call while the other makes its
\* calls: the schedules of ConcSpec in which thread 1 stops once, anywhere,
\* thread 2 then makes all of its calls without interruption, and thread 1
\* resumes afterwards (if thread 2 ever gets that far).

\* thread 1 promotes the root leaf; thread 2 fills the new root meanwhile
GrowingCalls ==
  <<Call3("insert", 10, 2)>>
    \o [i \in 1..((leaf_slot_max \div 2) * (inner_slot_max - 1)) |-> Call3("insert", 80 + i, 1)]

SuspendScenarios ==
  {[setup |-> SetupCalls(leaf_slot_max - 1),
    todo |-> << <<Call3("insert", 80, 1)>>, GrowingCalls >>]}

SuspendInit ==
  /\ \E sc \in SuspendScenarios :
       /\ tree = RunCalls(EmptyTree, sc.setup)
       /\ todo = sc.todo
  /\ tree0 = tree
  /\ plan = todo
  /\ th = [i \in Threads |-> Idle]
  /\ log = << >>
  /\ hist = << >>
  /\ last = NoCall
  /\ obs = Observe(EmptyTree)
  /\ prev = obs
  /\ abs = AbsSetup(<< >>)
  /\ dead = {}
  /\ twin = EmptyTree

\* thread 2 is scheduled whenever it has a step; thread 1 before the first
\* call of thread 2 and after its last
Scheduled(i) ==
  \/ i = 2
  \/ th[2].pc = "idle" /\ (todo[2] = plan[2] \/ Len(todo[2]) = 0)

ScheduledInvoke(i) == Scheduled(i) /\ Invoke(i)

ScheduledInsertData(i) == Scheduled(i) /\ InsertDataStep(i)

ScheduledSplitLeaf(i) == Scheduled(i) /\ SplitLeafStep(i)

ScheduledSplitInner(i) == Scheduled(i) /\ SplitInnerStep(i)

ScheduledRespond(i) == Scheduled(i) /\ Respond(i)

SuspendNext ==
  \E i \in Threads :
    \/ ScheduledInvoke(i)
    \/ ScheduledInsertData(i)
    \/ ScheduledSplitLeaf(i)
    \/ ScheduledSplitInner(i)
    \/ ScheduledRespond(i)

SuspendSpec == SuspendInit /\ [][SuspendNext]_vars


\* ------------------------------------- properties of the pages of the tree

\* the pages of the tree: those that the root leads to and the leaves
TreePages(t) ==
  {p \in (IF t.m_root = NULL_PID THEN {} ELSE ReachFrom(t, {}, {t.m_root}) \cup TreeLeaves(t)) :
     Get(t, p) \notin {NULL, UB}}

\* the keys that the chain of a page folds to: GetAllData for a leaf,
\* GetAllPointer for an inner page
PageKeys(t, pid) ==
  IF IsLeaf(t.heap[Get(t, pid)])
  THEN FoldKeys(t, pid)
  ELSE [i \in DOMAIN GetAllPointer(t.heap, Get(t, pid)) |-> GetAllPointer(t.heap, Get(t, pid))[i].key]

SlotMax(t, pid) == IF IsLeaf(t.heap[Get(t, pid)]) THEN leaf_slot_max ELSE inner_slot_max

StrictlyIncreasing(q) == \A i \in 1..(Len(q) - 1) : KeyLess(q[i], q[i + 1])

\* C15: once every call has returned, whatever the interleaving was, the
\* chain of every page of the tree folds to strictly increasing keys, at most
\* leaf_slot_max of them for a leaf and inner_slot_max for an inner page.
FoldIsSortedAndWithinSlots ==
  (Quiet /\ NoneUndefined) =>
    \A p \in TreePages(tree) :
      /\ StrictlyIncreasing(PageKeys(tree, p))
      /\ Len(PageKeys(tree, p)) <= SlotMax(tree, p)


\* the record m lies in the chain that starts at node n
RECURSIVE InChain(_, _, _)
InChain(h, n, m) == n = m \/ (IsDelta(h[n]) /\ InChain(h, h[n].base, m))

\* the page in whose chain the record m lies
PagesOf(t, m) == {p \in DOMAIN t.table : t.table[p] \notin {NULL, UB} /\ InChain(t.heap, t.table[p], m)}

\* GetLeafNodePID: the pages that the descent for key k passes, the leaf it
\* ends at included
RECURSIVE RoutePath(_, _, _, _)
RoutePath(t, pid, k, n) ==
  IF n = 0 \/ pid = UB \/ Get(t, pid) \in {NULL, UB} THEN {}
  ELSE {pid} \cup (IF IsLeaf(t.heap[Get(t, pid)]) THEN {}
                   ELSE RoutePath(t, FindNextPID(t, pid, k), k, n - 1))

GetLeafNodePath(t, k) == RoutePath(t, t.m_root, k, Len(t.heap))

\* the keys of the Split and Separator records of the tree, and the key
\* before each
RoutedKeys(t) ==
  UNION {{t.heap[m].key, t.heap[m].key - 1} :
           m \in {n \in DOMAIN t.heap : t.heap[n].node_type \in {"split_node", "separator_node"}}}

\* C16: once every call has returned, for every Split record (page P, split
\* key k_split, new sibling Q) the descent for a key below k_split does not
\* pass Q and the descent for a key from k_split on does not pass P, for leaf
\* and for inner pages, the keys of the separators included.
SplitRoutesKeysToTheirSide ==
  (Quiet /\ NoneUndefined /\ Running) =>
    \A m \in SplitRecords(tree) : \A k \in RoutedKeys(tree) :
      IF KeyLess(k, tree.heap[m].key)
      THEN tree.heap[m].side \notin GetLeafNodePath(tree, k)
      ELSE PagesOf(tree, m) \cap GetLeafNodePath(tree, k) = {}


\* the thread that made the step s comes back to the frame f0 within n more
\* steps of its own, none of which changes the tree t
RECURSIVE ComesBack(_, _, _, _)
ComesBack(t, f0, s, n) ==
  /\ s.t = t
  /\ ~Ended(s.f)
  /\ (s.f = f0 \/ (n > 0 /\ ComesBack(t, f0, Step(s.t, s.f), n - 1)))

\* thread i is inside a call and, running alone, repeats its present state
\* for ever: as long as no other thread moves its call does not return
SpinsAlone(i) ==
  /\ ~Ended(th[i])
  /\ ComesBack(tree, th[i], Step(tree, th[i]), Len(tree.heap))

\* C17: while one thread is suspended for ever at any point of its insert (for
\* example between the Split CAS and the write of the leaf's next link), the
\* call of the thread that keeps running returns after finitely many of its
\* steps: in no state does a thread, running alone, go round a loop that
\* brings it back to the state it is in.
MutationsAreLockFree == NoneUndefined => \A i \in Threads : ~SpinsAlone(i)


\* thread i is back from AllocatePID and has not yet tried the slot
HoldsNewPid(i) == th[i].pc \in {"boot_install", "pr_install", "sl_install", "si_install"}

\* the value that AllocatePID returned to thread i
NewPid(i) == IF th[i].pc \in {"boot_install", "pr_install"} THEN th[i].pid ELSE th[i].next_pid

\* C19: two calls of AllocatePID, made by different threads at any time, do
\* not return the same pid, and no call returns NULL_PID or a value above the
\* shared counter.
AllocatePIDReturnsFreshPid ==
  \A i \in Threads : HoldsNewPid(i) =>
    /\ NewPid(i) # NULL_PID
    /\ NewPid(i) <= tree.pid_counter
    /\ \A j \in Threads \ {i} : HoldsNewPid(j) => NewPid(j) # NewPid(i)

\* ------------------------------------------------ further properties of Spec

\* C18: no call reads or writes a slot of the mapping table whose index is
\* outside 0 .. MAPPING_TABLE_SIZE - 1, whether the pid came from AllocatePID
\* (a counter that has passed the capacity) or from a descent.
TableIndexStaysInBounds == last.ub # "table index out of bounds"


\* ---------------------------------------------------------------------------
\* Consolidation of a leaf page (bwtree.cpp:815-867), run by one caller
\* between the calls of the index.  No operation of the index calls it; its
\* caller names the page by pid.

\* ConsolidateLeafNode(pid): the new leaf takes parent and level from the
\* head of the chain; node steps ONE record down from a delta head
\* (bwtree.cpp:834-836), its next_leaf and prev_leaf are read as those of a
\* leaf (bwtree.cpp:838-839) and GetAllData folds from node on
\* (bwtree.cpp:842).  The compare-and-swap of the slot succeeds when no
\* other thread runs; the old chain goes to the epoch table.
Consolidation(t, f, old, node) ==
  IF old \in {NULL, UB} THEN Undefined(t, f, "null node dereferenced")
  ELSE IF IsDelta(t.heap[node])
  THEN Undefined(t, f, "next_leaf of a record that is no leaf")
  ELSE IF Len(GetAllData(t.heap, node)) > leaf_slot_max
  THEN Undefined(t, f, "slot_key index out of bounds")
  ELSE Return(Update(Alloc(t, [AllocateLeaf EXCEPT
                                 !.parent = t.heap[old].parent,
                                 !.level = t.heap[old].level,
                                 !.next_leaf = t.heap[node].next_leaf,
                                 !.prev_leaf = t.heap[node].prev_leaf,
                                 !.slot_use = Len(GetAllData(t.heap, node)),
                                 !.slot_key = [i \in DOMAIN GetAllData(t.heap, node) |->
                                                 GetAllData(t.heap, node)[i].key],
                                 !.slot_data = [i \in DOMAIN GetAllData(t.heap, node) |->
                                                  GetAllData(t.heap, node)[i].vals]]),
                     f.key, LastNode(t) + 1),
              f, << >>)

ConsolidateLeafNode(t, pid) ==
  Consolidation(t, NewFrame("consolidate", pid, 0), Get(t, pid),
                IF Get(t, pid) \notin {NULL, UB} /\ IsDelta(t.heap[Get(t, pid)])
                THEN t.heap[Get(t, pid)].base ELSE Get(t, pid))

\* the pids of the leaf pages
LeafPids(t) ==
  {p \in DOMAIN t.table : t.table[p] \notin {NULL, UB} /\ IsLeaf(t.heap[t.table[p]])}

\* the state after the consolidation c ran alone to its end s
Consolidated(c, s) ==
  /\ tree' = s.t
  /\ last' = Summary(s.f)
  /\ obs' = Observe(s.t)
  /\ prev' = obs
  /\ hist' = Append(hist, c)
  /\ UNCHANGED <<th, todo, log, abs, dead, twin, tree0, plan>>

ConsolidateLeaf(pid) ==
  /\ Running
  /\ pid \in LeafPids(tree)
  /\ Len(hist) < MaxOps
  /\ Consolidated([op |-> "consolidate", key |-> pid, value |-> 0], ConsolidateLeafNode(tree, pid))

ConsolidateNext ==
  \/ \E k \in OpKeys, v \in Values : InsertData(k, v)
  \/ \E k \in OpKeys, v \in Values : DeleteData(k, v)
  \/ \E pid \in 1..(MAPPING_TABLE_SIZE - 1) : ConsolidateLeaf(pid)

ConsolidateSpec == Init /\ [][ConsolidateNext]_vars

\* C20: a consolidation of a leaf page that returned, whatever the length of
\* the page's chain, and so also a second consolidation that follows the
\* first, leaves the result of lookup for every key and of scan_all as they
\* were before it.
ConsolidationKeepsLookups ==
  After("consolidate") => obs.lookup = prev.lookup /\ obs.scan = prev.scan


\* ------------------------------------------------ further properties of Spec

\* a step in which Search, Exists or SearchAll ran
ReadStep == hist' # hist /\ last'.op \in Readers

\* C21: a call of Search, Exists or SearchAll, in any state, the one of the
\* empty tree included, leaves m_root, m_headleaf, the pid counter, every
\* slot of the mapping table and every node as they were.
ReadersLeaveTreeAlone == [][ReadStep => tree' = tree]_vars

\* C21, a case of it: a reader returned from a tree that has pages
ReaderReturnedFromTree ==
  last.op \in Readers /\ last.pc = "done" /\ tree.m_root # NULL_PID /\ Len(tree.heap) > 0


\* C22: in every state the slot_use of the head of every leaf chain is the
\* number of keys that the chain folds to: an Insert of a new key adds one,
\* an Insert of a present key nothing, a Delete that removes a key takes one
\* off, and a Split leaves the size of the lower half.
HeadSlotUseIsFoldSize ==
  Running =>
    \A p \in LeafPids(tree) :
      tree.heap[Get(tree, p)].slot_use = Len(GetAllData(tree.heap, Get(tree, p)))


\* ------------------------------------- further properties of ConcSpec

\* thread i took the step that tries to install its delta
InstallStep(i) == th[i].pc = "install" /\ th'[i] # th[i]

\* the nodes that were there are what they were
OldNodesKept == SubSeq(tree'.heap, 1, Len(tree.heap)) = tree.heap

\* the step of thread i installed its delta on the head that it was built on
CasSucceeded(i) ==
  LET f == th[i]
      n == Len(tree.heap) + 1
  IN /\ Get(tree, f.curr_pid) = f.curr_node
     /\ Len(tree'.heap) = n
     /\ tree' = Update(Alloc(tree, tree'.heap[n]), f.curr_pid, n)
     /\ IsDelta(tree'.heap[n])
     /\ tree'.heap[n].base = f.curr_node
     /\ ~tree'.heap[n].freed
     /\ th'[i].pc \in {"idle", "done", "split_root"}

\* the step of thread i lost the race: the draft is destroyed and the call starts again
CasFailed(i) ==
  LET f == th[i]
      n == Len(tree.heap) + 1
  IN /\ Get(tree, f.curr_pid) # f.curr_node
     /\ tree'.table = tree.table
     /\ tree'.m_root = tree.m_root
     /\ OldNodesKept
     /\ Len(tree'.heap) = n
     /\ tree'.heap[n].freed
     /\ \A p \in DOMAIN tree'.table : ~InChain(tree'.heap, n, tree'.table[p])
     /\ th'[i].pc = "descend_root"

\* the step of thread i was an UpdateData that found no key and left
NothingToUpdate(i) == th[i].op = "update" /\ tree' = tree /\ th'[i].pc \in {"idle", "done"}

\* the other steps of the descent, from the root to the leaf, change nothing
DescentStep(i) ==
  /\ th[i].op \in Mutators
  /\ th[i].splitting = "none"
  /\ th[i].pc \in {"descend_root", "descend_node", "descend_next", "descend_get",
                   "sibling", "sibling_get", "sibling_back"}
  /\ th'[i] # th[i]

InnerPages(t) ==
  {q \in (IF t.m_root = NULL_PID THEN {} ELSE ReachFrom(t, {}, {t.m_root})) :
     Get(t, q) \notin {NULL, UB} /\ ~IsLeaf(t.heap[Get(t, q)])}

\* the inner page q has the child c behind the separator key k, or as its
\* first child
HasChild(t, q, k, c) ==
  \/ t.heap[GetBaseNode(t.heap, Get(t, q))].child_pid[1] = c
  \/ \E i \in DOMAIN GetAllPointer(t.heap, Get(t, q)) :
       GetAllPointer(t.heap, Get(t, q))[i] = [key |-> k, vals |-> c]

\* the Split records of the leaves that are in a chain of the mapping table
LeafSplits(t) ==
  {m \in DOMAIN t.heap : /\ t.heap[m].node_type = "split_node"
                         /\ t.heap[m].level = 0
                         /\ ~t.heap[m].freed
                         /\ PagesOf(t, m) # {}}

\* thread i installed the Split record m and is on its way to the page of
\* parent_pid with the separator
BringsSeparator(i, m) ==
  /\ Splitting(th[i], "leaf")
  /\ th[i].pc \in {"link1", "link2", "sl_link3", "sl_link4", "sep_get", "sep_upper", "sep_cas"}
  /\ th[i].next_pid = tree.heap[m].side
  /\ th[i].parent_pid \in InnerPages(tree)
  /\ th[i].split_pid \in Pointed(tree, th[i].parent_pid)

\* C24: from the moment a Split record is installed on a leaf, either the
\* thread that installed it is on its way to the leaf's parent, an inner page
\* that the root leads to and that names the leaf, to install the separator
\* there, or an inner page that the root leads to holds the separator that
\* routes the keys from the split key on to the new sibling; so the thread,
\* as long as it takes steps, gets the separator installed
SplitGetsItsSeparator ==
  NoneUndefined =>
    \A m \in LeafSplits(tree) :
      \/ \E i \in Threads : BringsSeparator(i, m)
      \/ \E q \in InnerPages(tree) : HasChild(tree, q, tree.heap[m].key, tree.heap[m].side)

\* the insert, update and delete records in the chain of the page pid
WriterRecords(t, pid) ==
  {d \in DOMAIN t.heap : /\ t.heap[d].node_type \in {"insert_node", "update_node", "delete_node"}
                         /\ InChain(t.heap, Get(t, pid), d)}

\* C25: in every state, the steps between the install of a Split record and
\* the write of next_leaf included, no insert, update or delete record whose
\* key is the split key or more lies above a Split record in the chain of the
\* split page, and no such record lies on a page further right than its key
\* belongs: the keys of the records of a sibling are at least the key of the
\* Split record that names the sibling
WritersFollowSplit ==
  NoneUndefined =>
    \A p \in LeafPids(tree) : \A d \in WriterRecords(tree, p) :
      /\ \A m \in LeafSplits(tree) :
           InChain(tree.heap, d, m) => KeyLess(tree.heap[d].key, tree.heap[m].key)
      /\ \A m \in LeafSplits(tree) :
           tree.heap[m].side = p => KeyGreaterEqual(tree.heap[d].key, tree.heap[m].key)

\* thread i, inside SplitLeaf, took the step at the place pc
SplitLeafAt(i, pc) == th[i].splitting = "leaf" /\ th[i].pc = pc /\ th'[i] # th[i]

\* the fold of the head n that the splitting thread i read (bwtree.cpp:383)
SplitBuffer(i) == GetAllData(tree.heap, th[i].n)

\* the step of thread i installed its Split record
SplitInstalled(i) == SplitLeafAt(i, "sl_cas") /\ tree'.table # tree.table

\* C26: a leaf split neither loses nor duplicates.  With result the fold of
\* the head that was read and pos = size / 2, the split key is result[pos].key
\* and, in the state right after the install of the Split record, slot_use of
\* the record is pos, the splitting leaf folds to result[0..pos) and the
\* sibling to result[pos..size), value lists included.
SplitKeepsEveryPair ==
  [][\A i \in Threads :
       /\ SplitLeafAt(i, "sl_next") =>
            /\ th'[i].pc # "undefined"
            /\ th'[i].split_key = SplitBuffer(i)[Len(SplitBuffer(i)) \div 2 + 1].key
       /\ SplitInstalled(i) =>
            LET result == SplitBuffer(i)
                pos == Len(result) \div 2
                head == Get(tree', th[i].split_pid)
            IN  /\ tree'.heap[head].node_type = "split_node"
                /\ tree'.heap[head].key = result[pos + 1].key
                /\ tree'.heap[head].side = th[i].next_pid
                /\ tree'.heap[head].slot_use = pos
                /\ GetAllData(tree'.heap, head) = SubSeq(result, 1, pos)
                /\ GetAllData(tree'.heap, Get(tree', th[i].next_pid)) = SubSeq(result, pos + 1, Len(result))]_vars

\* the leaves of the tree that hold a key with a value: the head leaf and the
\* siblings that installed Split records name
LiveLeaves(t) ==
  {p \in {t.m_headleaf} \cup {t.heap[m].side : m \in LeafSplits(t)} :
     /\ p \in LeafPids(t)
     /\ \E j \in DOMAIN GetAllData(t.heap, Get(t, p)) : Len(GetAllData(t.heap, Get(t, p))[j].vals) > 0}

\* the keys of the pages of a sequence of leaf pids, one after the other
RECURSIVE KeysAlong(_, _)
KeysAlong(t, pids) ==
  IF Len(pids) = 0 THEN << >> ELSE FoldKeys(t, Head(pids)) \o KeysAlong(t, Tail(pids))

\* C27: in every state, the states between the install of a Split record and
\* the link writes included, the walk from the head leaf along next_leaf
\* visits every leaf that holds a live key exactly once, and the keys come in
\* ascending order
LeafChainVisitsEveryLiveLeaf ==
  NoneUndefined =>
    LET chain == LeafChain(tree, tree.m_headleaf, Len(tree.heap) + 1)
    IN  /\ \A p \in LiveLeaves(tree) : Cardinality({i \in DOMAIN chain : chain[i] = p}) = 1
        /\ StrictlyIncreasing(KeysAlong(tree, chain))

\* the Separator records of the chain of node n claim the key k
RECURSIVE SeparatorClaims(_, _, _)
SeparatorClaims(h, n, k) ==
  /\ IsDelta(h[n])
  /\ \/ /\ h[n].node_type = "separator_node"
        /\ KeyLessEqual(h[n].key, k)
        /\ (h[n].right_most \/ KeyLess(k, h[n].right))
     \/ SeparatorClaims(h, h[n].base, k)

\* the inner pages of the mapping table
InnerPids(t) ==
  {p \in DOMAIN t.table : /\ t.table[p] \notin {NULL, UB}
                          /\ ~t.heap[t.table[p]].freed
                          /\ t.heap[GetBaseNode(t.heap, t.table[p])].node_type = "inner_node"}

\* the keys of the slots of the inner base pages, and the key before and
\* after each
SlotKeys(t) ==
  UNION {UNION {{t.heap[n].slot_key[i] - 1, t.heap[n].slot_key[i], t.heap[n].slot_key[i] + 1} :
                  i \in 1..t.heap[n].slot_use} :
           n \in {m \in DOMAIN t.heap : t.heap[m].node_type = "inner_node"}}

\* C28: for a key k that no Separator record of the chain claims, the next
\* child is child_pid[lo] of the base page, lo the smallest index (from 0) with
\* slot_key[lo] > k, or slot_use: child_pid[i] gets the keys of
\* [slot_key[i-1], slot_key[i]), the key slot_key[i-1] itself included.
BaseRoutesKeyToUpperChild ==
  \A p \in InnerPids(tree) : \A k \in SlotKeys(tree) :
    ~SeparatorClaims(tree.heap, Get(tree, p), k) =>
      LET inner == tree.heap[GetBaseNode(tree.heap, Get(tree, p))]
          lo == Cardinality({i \in 1..inner.slot_use : KeyLessEqual(inner.slot_key[i], k)})
      IN  FindNextPID(tree, p, k) = inner.child_pid[lo + 1]


\* ------------- the specification of leaf splits under one parent: RouteSpec

\* where the bursts of a run start
BurstStarts == {15, 35, 41, 55, 62, 75}

\* how many leaves a run splits after the first split
MaxBursts == 3

\* the runs: the base keys, which split the root leaf once, then MaxBursts
\* bursts at different places in any order
BurstOrders ==
  {q \in [1..MaxBursts -> BurstStarts] : \A i, j \in 1..MaxBursts : i # j => q[i] # q[j]}

RECURSIVE Bursts(_, _)
Bursts(q, i) == IF i > Len(q) THEN << >> ELSE Burst(10 * q[i]) \o Bursts(q, i + 1)

RouteInit ==
  /\ tree = EmptyTree
  /\ \E q \in BurstOrders :
       todo = [i \in Threads |->
                 IF i = 1
                 THEN [j \in 1..leaf_slot_max |-> Call3("insert", 100 * j, 1)] \o Bursts(q, 1)
                 ELSE << >>]
  /\ plan = todo
  /\ tree0 = tree
  /\ twin = tree
  /\ th = [i \in Threads |-> Idle]
  /\ log = << >>
  /\ hist = << >>
  /\ last = NoCall
  /\ obs = Observe(EmptyTree)
  /\ prev = obs
  /\ abs = AbsSetup(<< >>)
  /\ dead = {}

RouteSpec == RouteInit /\ [][FillNext]_vars

\* the leaf whose key range holds k, from the leaf p on: the Split records
\* say where the keys from their key on went
RECURSIVE OwnerLeaf(_, _, _, _)
OwnerLeaf(t, p, k, n) ==
  LET splits == {m \in LeafSplits(t) : /\ InChain(t.heap, Get(t, p), m)
                                       /\ KeyLessEqual(t.heap[m].key, k)}
  IN  IF splits = {} \/ n = 0 THEN p
      ELSE OwnerLeaf(t, t.heap[CHOOSE m \in splits :
                                 \A x \in splits : KeyLessEqual(t.heap[x].key, t.heap[m].key)].side,
                     k, n - 1)

\* the separator records of the tree, from the oldest on
SeparatorRecords(t) == {n \in DOMAIN t.heap : t.heap[n].node_type = "separator_node" /\ ~t.heap[n].freed}

\* C29: the walk of an inner chain takes the child of the first Separator
\* record whose interval holds the key; after leaf splits under one parent,
\* whatever the order in which their separators were installed, the parent
\* sends every key to the leaf whose key range holds it
SeparatorsRouteToOwner ==
  (Running /\ SeparatorRecords(tree) # {}) =>
    \A k \in RoutedKeys(tree) \cup {0, 1000} :
      FindNextPID(tree, tree.m_root, k) = OwnerLeaf(tree, tree.m_headleaf, k, Len(tree.heap))

\* C29, a case of it: a separator was installed whose key lies between the
\* keys of two older ones
SeparatorInstalledBetween ==
  /\ last.pc = "done"
  /\ \E a, b, c \in SeparatorRecords(tree) :
       /\ a > b
       /\ a > c
       /\ KeyLess(tree.heap[b].key, tree.heap[a].key)
       /\ KeyLess(tree.heap[a].key, tree.heap[c].key)
       /\ InChain(tree.heap, Get(tree, tree.m_root), a)


\* the separator keys that the chain of node n holds: the keys of its
\* Separator records and of the slots of its base page
RECURSIVE SeparatorKeys(_, _)
SeparatorKeys(h, n) ==
  IF IsDelta(h[n])
  THEN (IF h[n].node_type = "separator_node" THEN {h[n].key} ELSE {}) \cup SeparatorKeys(h, h[n].base)
  ELSE {h[n].slot_key[i] : i \in 1..h[n].slot_use}

\* the Separator records that were installed
InstalledSeparators(t) == {s \in SeparatorRecords(t) : PagesOf(t, s) # {}}

\* C30: the right key of an installed Separator record is the smallest
\* separator key, among the Separator records and base slots of the parent
\* head it was installed on, that is greater than its split key, or the split
\* key itself when there is none; right_most is set in exactly that case.
RightKeyIsNextSeparator ==
  \A s \in InstalledSeparators(tree) :
    LET above == {x \in SeparatorKeys(tree.heap, tree.heap[s].base) : KeyLess(tree.heap[s].key, x)}
    IN  /\ tree.heap[s].right_most <=> above = {}
        /\ above = {} => tree.heap[s].right = tree.heap[s].key
        /\ above # {} =>
             /\ tree.heap[s].right \in above
             /\ \A x \in above : KeyLessEqual(tree.heap[s].right, x)

\* C30, a case of it: every call has returned and a Separator record is
\* installed whose right key is the key of a slot of the base page
RightKeyFromBaseSlot ==
  /\ Quiet
  /\ NoneUndefined
  /\ \E s \in InstalledSeparators(tree) :
       /\ ~tree.heap[s].right_most
       /\ \E i \in 1..tree.heap[GetBaseNode(tree.heap, s)].slot_use :
            tree.heap[GetBaseNode(tree.heap, s)].slot_key[i] = tree.heap[s].right


\* --------------------------------- further properties of ConsolidateSpec

\* a step in which ConsolidateLeafNode ran
ConsolidateStep == hist' # hist /\ last'.op = "consolidate"

\* the base page of the page pid in the tree t
BasePage(t, pid) == t.heap[GetBaseNode(t.heap, Get(t, pid))]

\* C31: a consolidation of a leaf page, whatever the length of its chain,
\* returns and leaves a base page with the parent, the level, the prev_leaf
\* and the next_leaf of the base page that was under the chain.
ConsolidationKeepsHintAndLinks ==
  [][ConsolidateStep =>
       /\ last'.pc = "done"
       /\ ~IsDelta(tree'.heap[Get(tree', last'.key)])
       /\ BasePage(tree', last'.key).parent = BasePage(tree, last'.key).parent
       /\ BasePage(tree', last'.key).level = BasePage(tree, last'.key).level
       /\ BasePage(tree', last'.key).prev_leaf = BasePage(tree, last'.key).prev_leaf
       /\ BasePage(tree', last'.key).next_leaf = BasePage(tree, last'.key).next_leaf]_vars


\* ------- the specification of a consolidation beside another call: RaceSpec

\* the places of ConsolidateLeafNode
ConsPcs == {"start", "cons_get", "cons_build", "cons_cas"}

\* the runs of RaceSpec, on the tree of two leaves whose right leaf, pid 3,
\* is a base page: a consolidation of it beside an insert of a new key,
\* beside an insert of a key it holds and beside a second consolidation,
\* and a consolidation of the leaf under one record beside an insert
RaceScenarios ==
  {[setup |-> SetupCalls(leaf_slot_max),
    todo |-> << <<Call3("consolidate", 3, 0)>>, <<Call3("insert", 55, 1)>> >>],
   [setup |-> SetupCalls(leaf_slot_max),
    todo |-> << <<Call3("consolidate", 3, 0)>>, <<Call3("insert", 50, 2)>> >>],
   [setup |-> SetupCalls(leaf_slot_max),
    todo |-> << <<Call3("consolidate", 3, 0)>>, <<Call3("consolidate", 3, 0)>> >>],
   [setup |-> SetupCalls(leaf_slot_max) \o <<Call3("insert", 55, 1)>>,
    todo |-> << <<Call3("consolidate", 3, 0)>>, <<Call3("insert", 56, 1)>> >>]}

RaceInit ==
  /\ \E sc \in RaceScenarios :
       /\ tree = RunCalls(EmptyTree, sc.setup)
       /\ todo = sc.todo
  /\ tree0 = tree
  /\ plan = todo
  /\ th = [i \in Threads |-> Idle]
  /\ log = << >>
  /\ hist = << >>
  /\ last = NoCall
  /\ obs = Observe(EmptyTree)
  /\ prev = obs
  /\ abs = AbsSetup(<< >>)
  /\ dead = {}
  /\ twin = EmptyTree

ConsolidateLeafNodeStep(i) ==
  /\ NoneUndefined
  /\ th[i].op = "consolidate" /\ th[i].pc \in ConsPcs
  /\ Stepped(i, Step(tree, th[i]))

RaceNext ==
  \E i \in Threads :
    \/ Invoke(i)
    \/ InsertDataStep(i)
    \/ ConsolidateLeafNodeStep(i)
    \/ Respond(i)

RaceSpec == RaceInit /\ [][RaceNext]_vars

\* thread i, in ConsolidateLeafNode, took the step of its compare-and-swap
\* and the head was no longer the one it had read
ConsolidationLost(i) ==
  /\ th[i].op = "consolidate"
  /\ th[i].pc = "cons_cas"
  /\ th'[i] # th[i]
  /\ Get(tree, th[i].key) # th[i].n

\* C32: a consolidation whose compare-and-swap fails destroys its draft page,
\* changes no slot and returns, without an error and without another try;
\* and a compare-and-swap of a consolidation that succeeds found the head
\* that the consolidation had read.
LostConsolidationReturns ==
  [][\A i \in Threads :
       /\ ConsolidationLost(i) =>
            /\ tree'.table = tree.table
            /\ tree'.heap[th[i].draft].freed
            /\ th'[i].pc = "done"
       /\ (th[i].pc = "cons_cas" /\ th'[i] # th[i] /\ tree'.table # tree.table) =>
            /\ Get(tree, th[i].key) = th[i].n
            /\ tree' = Update(tree, th[i].key, th[i].draft)]_vars


\* ------------------------------- properties of the root field in ConcSpec

\* thread i took the step of the compare-and-swap of m_root (bwtree.cpp:351)
RootCasStep(i) == th[i].pc = "pr_cas" /\ th'[i] # th[i]

\* C33: when threads split the same root page at the same time, the
\* compare-and-swap of the root field succeeds for one of them: the root
\* becomes its new inner page, whose only child is the old root; a thread
\* whose compare-and-swap fails leaves the root field alone, destroys its
\* draft, which the root does not lead to, and goes on with the split; and
\* the root field changes from one page to another in no other way.
RootPromotionHasOneWinner ==
  [][/\ \A i \in Threads : RootCasStep(i) =>
          IF tree.m_root = th[i].split_pid
          THEN /\ tree'.m_root = th[i].pid
               /\ Get(tree', th[i].pid) = th[i].draft
               /\ ~tree'.heap[th[i].draft].freed
               /\ tree'.heap[th[i].draft].node_type = "inner_node"
               /\ tree'.heap[th[i].draft].slot_use = 0
               /\ tree'.heap[th[i].draft].child_pid = <<th[i].split_pid>>
          ELSE /\ tree'.m_root = tree.m_root
               /\ tree'.heap[th[i].draft].freed
               /\ th[i].pid \notin ReachFrom(tree', {}, {tree'.m_root})
               /\ th'[i].pc \in {"sl_loop", "si_loop"}
     /\ (tree.m_root # NULL_PID /\ tree'.m_root # tree.m_root) =>
          \E i \in Threads : RootCasStep(i) /\ tree.m_root = th[i].split_pid]_vars

\* C33, a case of it: two threads were in the promotion of the same root and
\* one of them lost: its draft is destroyed and the root is the other's page
RootCasWasLost ==
  /\ NoneUndefined
  /\ \E p \in DOMAIN tree.table :
       /\ p # tree.m_root
       /\ tree.table[p] \notin {NULL, UB}
       /\ tree.heap[tree.table[p]].node_type = "inner_node"
       /\ tree.heap[tree.table[p]].freed
  /\ tree.heap[Get(tree, tree.m_root)].node_type \in {"inner_node", "separator_node"}


\* C34: when threads bootstrap the empty tree at the same time, the root
\* field has left NULL_PID and the head-leaf field names the published leaf
\* by the time any mutation has completed, so that a search_all started
\* after an insert has completed returns the inserted pair.
HeadLeafSetBeforeMutationEnds ==
  \A i \in Threads :
    (th[i].pc = "done" /\ th[i].op \in Mutators) =>
      /\ tree.m_root # NULL_PID
      /\ tree.m_headleaf # NULL_PID
      /\ th[i].op = "insert" => <<th[i].key, th[i].value>> \in PairsOf(ScanAll(tree))


\* the keys of a sequence of keys, as a set
KeysOf(q) == {q[i] : i \in DOMAIN q}

\* C35: when a separator fills the parent, the parent is split in turn, with
\* a root promotion if it is the root; once the cascade is over and every
\* call has returned, the descent from the root for every key that a leaf
\* holds ends in the leaf that holds it.
CascadeKeepsRouting ==
  (Quiet /\ NoneUndefined /\ Height(tree) > 1) =>
    \A p \in TreeLeaves(tree) : \A k \in KeysOf(FoldKeys(tree, p)) :
      p \in GetLeafNodePath(tree, k)


\* ------------------------------------------- properties of freed nodes

\* the node pointers that the locals of a call hold
HeldNodes(f) ==
  {f.curr_node, f.n, f.base_node, f.parent, f.next_node, f.former_next, f.leaf, f.draft} \ {NULL, UB}

\* the step frees the node n (FreeNode, bwtree.h:649-704)
Frees(n) == tree'.heap[n].freed /\ (n \in DOMAIN tree.heap => ~tree.heap[n].freed)

\* C36: a node is freed only when no slot of the mapping table points to
\* it, it is part of no chain that a slot leads to, and no other thread
\* holds a pointer to it; the drafts that the losers of the bootstrap, the
\* root promotion and the split free were placed in a slot before.
FreedNodeIsUnreferenced ==
  [][\A n \in DOMAIN tree'.heap : Frees(n) =>
       /\ \A p \in DOMAIN tree'.table :
            tree'.table[p] \in DOMAIN tree'.heap => ~InChain(tree'.heap, tree'.table[p], n)
       /\ \A j \in Threads : th'[j] = th[j] => n \notin HeldNodes(th[j])]_vars


\* ------------------------------------------- properties of the descent

\* C37: during every descent the current PID and the current node are of one
\* page, also when a root promotion changes the root field between the two
\* reads of it, so that FindNextPID is applied to the PID of an inner page
\* only.
DescentReadsOnePage ==
  \A i \in Threads :
    th[i].pc \in {"descend_next", "glp_next"} =>
      /\ Get(tree, th[i].curr_pid) \in DOMAIN tree.heap
      /\ InChain(tree.heap, Get(tree, th[i].curr_pid), th[i].curr_node)
      /\ ~IsLeaf(tree.heap[Get(tree, th[i].curr_pid)])


\* ------------------------------------ properties of the separator's parent

\* C38: whenever SplitLeaf or SplitInner installs a Separator, the parent
\* PID that it uses is not NULL_PID and names an inner page whose slot is
\* not empty, also when two threads split the same root leaf at the same
\* time.
SeparatorGoesToInnerPage ==
  \A i \in Threads :
    th[i].pc \in {"sep_get", "sep_upper", "sep_cas"} =>
      /\ th[i].parent_pid # NULL_PID
      /\ Get(tree, th[i].parent_pid) \in DOMAIN tree.heap
      /\ tree.heap[GetBaseNode(tree.heap, Get(tree, th[i].parent_pid))].node_type = "inner_node"


\* ------------------------------------ properties of the leaf being split

\* C39: whenever SplitLeaf bisects a leaf, the fold of the head that it read
\* holds at least two keys, so that the split position is a valid index and
\* both halves hold at least one key, whatever inserts and deletes of the
\* same keys came before and whatever deletes run at the same time.
SplitFoldHasTwoKeys ==
  \A i \in Threads :
    th[i].pc = "sl_next" =>
      /\ Len(GetAllData(tree.heap, th[i].n)) >= 2
      /\ Len(GetAllData(tree.heap, th[i].n)) \div 2 >= 1
      /\ Len(GetAllData(tree.heap, th[i].n)) \div 2 < Len(GetAllData(tree.heap, th[i].n))


\* ------------------------------------ properties of the slots of new pages

\* the pcs at which a new base page is put into its slot, and those of the
\* load of AllocatePID before
InstallPcs == {"boot_install", "pr_install", "sl_install", "si_install"}

AllocatePcs == {"boot_pid", "pr_pid", "sl_pid"}

\* the PID that thread i obtained for its new page, and the page
NewPagePid(f) == IF f.pc \in {"boot_install", "pr_install", "boot_pid", "pr_pid"} THEN f.pid ELSE f.next_pid

NewPage(f) == IF f.pc \in {"boot_install", "pr_install", "boot_pid", "pr_pid"} THEN f.draft ELSE f.next_node

\* C40: no two pages are ever installed on one PID.  A slot that holds a
\* page keeps the base node of that page in every step, and a new base
\* page goes into its slot by a compare-and-swap from empty only: a thread
\* that finds the slot of its PID taken leaves it alone and obtains
\* another PID.
PidKeepsItsPage ==
  [][/\ \A p \in DOMAIN tree.table :
          tree.table[p] \in DOMAIN tree.heap =>
            /\ tree'.table[p] \in DOMAIN tree'.heap
            /\ GetBaseNode(tree'.heap, tree'.table[p]) = GetBaseNode(tree.heap, tree.table[p])
     /\ \A i \in Threads :
          (th[i].pc \in InstallPcs /\ th'[i] # th[i] /\ th'[i].pc # "undefined") =>
            IF Get(tree, NewPagePid(th[i])) = NULL
            THEN Get(tree', NewPagePid(th[i])) = NewPage(th[i])
            ELSE /\ tree'.table = tree.table
                 /\ tree'.pid_counter = tree.pid_counter + 1
                 /\ th'[i].pc \in AllocatePcs]_vars

\* C40, a case of it: a thread found the slot of the PID that it had
\* obtained taken by the page of another thread, and is obtaining another
PidWasTaken ==
  \E i \in Threads :
    /\ th[i].pc \in AllocatePcs
    /\ NewPagePid(th[i]) # NULL_PID
    /\ Get(tree, NewPagePid(th[i])) \in DOMAIN tree.heap
    /\ Get(tree, NewPagePid(th[i])) # NewPage(th[i])
    /\ tree.pid_counter > NewPagePid(th[i])

====
